---- MODULE Spec2Model ----
(***************************************************************************)
(* Proof generation, proof cache, batch generation and the challenge /     *)
(* response protocol of the Solstice SDK.                                  *)
(*                                                                         *)
(* Two engines exist in the source and both are modelled:                  *)
(*   "basic" : ProofGenerator         (mock prover, no cache), used by     *)
(*             SolsticeSDK;                                                *)
(*   "enh"   : EnhancedProofGenerator (snarkjs prover, proof cache), used  *)
(*             by EnhancedSolsticeSDK.                                     *)
(*                                                                         *)
(* Time: `now' is Date.now() in milliseconds counted from process start;   *)
(* the wall clock at process start is EpochSec seconds after 1970-01-01.   *)
(* Dates are evaluated in UTC.                                             *)
(***************************************************************************)
EXTENDS Integers, Sequences, FiniteSets, TLC

VARIABLES
    now,            \* Date.now() - process start, in ms
    calls,          \* sequence of generation calls, in order of their start
    proverCalls,    \* number of prover invocations so far (both engines)
    nonceCtr,       \* number of generateNonce() results handed out
    seq,            \* event counter: orders call starts and completions
    proofCache,     \* EnhancedProofGenerator.proofCache : key -> ProofCache
    poseidon,       \* EnhancedProofGenerator.poseidon # null
    wasmCache,      \* EnhancedProofGenerator.wasmCache : set of circuit names
    zkeyCache,      \* EnhancedProofGenerator.zkeyCache : set of circuit names
    isInitialized,  \* SolsticeSDK.isInitialized
    circuits,       \* ProofGenerator.circuits : set of loaded circuit types
    circuitLoads,   \* number of ProofGenerator.loadCircuit executions
    mockPoseidon,   \* ProofGenerator.poseidon # null
    batch,          \* the SolsticeSDK.batchGenerate call in progress
    ebatch,         \* the EnhancedProofGenerator.generateBatchProofs call
    challenges,     \* challenges issued by generateChallenge, in order
    responds,       \* respondToChallenge calls, in order of their start
    verifies,       \* verifyProofResponse results, in order
    clears,         \* EnhancedSolsticeSDK.clearCache calls, in order
    inits,          \* initialize() executions that had to load, in order
    subtle,         \* crypto.subtle is available in this runtime
    enhInitialized, \* EnhancedSolsticeSDK.isInitialized
    retryCall,      \* the retry(operation, maxAttempts, baseDelay) call in progress
    workflow        \* the completeVerificationWorkflow call in progress

vars == <<now, calls, proverCalls, nonceCtr, seq, proofCache, poseidon,
          wasmCache, zkeyCache, isInitialized, circuits, circuitLoads,
          mockPoseidon, batch, ebatch, challenges, responds, verifies, clears,
          inits, subtle, enhInitialized, retryCall, workflow>>

engineVars == <<proofCache, poseidon, wasmCache, zkeyCache>>
sdkVars    == <<isInitialized, circuits, circuitLoads, mockPoseidon>>
protoVars  == <<challenges, responds, verifies>>

-----------------------------------------------------------------------------
(* Bounds of the model *)

MaxCalls      == 3      \* generation calls per behaviour (cache scenarios)
MaxGenCalls   == 1      \* generation calls per behaviour (precondition scenarios)
MaxSdkCalls   == 2      \* SolsticeSDK generate*ProofWithQR calls per behaviour
MaxUniqCalls  == 2      \* generateUniquenessProof calls per behaviour
MaxEngineInits == 2     \* EnhancedProofGenerator.initialize calls per behaviour
MaxLoadInits  == 2      \* SolsticeSDK.initialize executions per behaviour
MaxLoadCalls  == 2      \* generate*ProofWithQR calls per behaviour (fresh SDK)
MaxSweepCalls == 2      \* generation calls per behaviour (cache maintenance)
MaxClears     == 1      \* clearCache calls per behaviour
MaxPairChallenges == 2  \* challenges issued per behaviour (two-challenge scenarios)
MaxPairResponds == 2    \* respondToChallenge calls per behaviour (two-challenge scenarios)
MaxBatchReqs  == 4      \* requests handed to one batchGenerate call
MaxChallenges == 1      \* challenges issued per behaviour
MaxResponds   == 1      \* respondToChallenge calls per behaviour
MaxVerifies   == 1      \* verifyProofResponse calls per behaviour

\* The instants at which the clock is observed in the scenarios that
\* exercise the cache TTL
CacheTimes == {0, 1000, 604800000}

\* ... in the scenarios that exercise preconditions and timeouts
GenTimes == {0, 1000, 30000, 45000}

-----------------------------------------------------------------------------
(* Program constants *)

Kinds == {"age", "nationality", "uniqueness"}

CIRCUIT_CACHE_TTL == 604800000

PROOF_TIMEOUTS_Short == [age |-> 1000, nationality |-> 1000, uniqueness |-> 1000]

PROOF_TIMEOUTS == [age |-> 30000, nationality |-> 45000, uniqueness |-> 20000]

SUPPORTED_COUNTRIES ==
    {"US", "IN", "UK", "CA", "AU", "DE", "FR", "JP", "KR", "SG",
     "BR", "MX", "AR", "CL", "PE", "CO", "VE", "UY", "PY", "BO",
     "EC", "GY", "SR", "FK", "GF", "PF", "NC", "VU", "FJ", "SB",
     "PG", "NR", "TV", "KI", "MH", "FM", "PW", "WS", "TO", "AS"}

ChunkSize == 3

DefaultExpirationSeconds == 300

MockDelayMin == 1000
MockDelayMax == 3000

\* Math.random() * 2000 + 1000, at the two ends of its range
MockDelays == {MockDelayMin, MockDelayMax - 1}

SecondsPerYear == 31557600      \* 365.25 * 24 * 60 * 60

-----------------------------------------------------------------------------
(* JavaScript numbers: an integer or NaN *)

NaN == [nan |-> TRUE, v |-> 0]
Num(n) == [nan |-> FALSE, v |-> n]

\* a < b as JavaScript evaluates it: false as soon as one side is NaN
JsLess(a, b) == ~a.nan /\ ~b.nan /\ a.v < b.v

\* array element, undefined (here NaN, as Number would make it) past the end
ElemOrNaN(s, i) == IF i \in 1..Len(s) THEN s[i] ELSE NaN

Has(p, f) == f \in DOMAIN p

\* Field names in the order a caller writes them when nothing else is said.
FieldNames ==
    <<"threshold", "allowedCountries", "daoId", "epochId", "nonce", "type",
      "countries", "scope">>

\* The own keys of a params object, in insertion order: the order given with
\* the request, else the usual one.
Written(x) ==
    IF Has(x, "written") THEN x.written
    ELSE SelectSeq(FieldNames, LAMBDA f : f \in DOMAIN x.params)

\* the params object of a request or of a call: its fields and their order
Obj(x) == [fields |-> x.params, written |-> Written(x)]

\* one generation request: kind, attribute record, params
Input0(kind, rec, params) == [kind |-> kind, rec |-> rec, params |-> params]

-----------------------------------------------------------------------------
(* Dates.  A date string is [fmt, y, m, d]: fmt "DMY" is DD/MM/YYYY and    *)
(* fmt "ISO" is YYYY-MM-DD.                                                *)

\* dateStr.split('/').map(Number)
SplitSlashNumbers(dateStr) ==
    IF dateStr.fmt = "DMY"
    THEN <<Num(dateStr.d), Num(dateStr.m), Num(dateStr.y)>>
    ELSE <<NaN>>        \* Number("1995-01-01") is NaN, and it is the only part

\* days from 1970-01-01 to the civil date y-m-d
DaysFromCivil(y, m, d) ==
    LET yy  == IF m <= 2 THEN y - 1 ELSE y
        era == yy \div 400
        yoe == yy - era * 400
        mp  == (m + 9) % 12
        doy == (153 * mp + 2) \div 5 + d - 1
        doe == yoe * 365 + yoe \div 4 - yoe \div 100 + doy
    IN  era * 146097 + doe - 719468

\* Wall clock at process start: 2026-11-06T00:00:00Z, in seconds.
EpochSec == DaysFromCivil(2026, 11, 6) * 86400

\* Math.floor(new Date(year, month - 1, day).getTime() / 1000)
dateToTimestamp(dateStr) ==
    LET parts == SplitSlashNumbers(dateStr)
        day   == ElemOrNaN(parts, 1)
        month == ElemOrNaN(parts, 2)
        year  == ElemOrNaN(parts, 3)
    IN  IF day.nan \/ month.nan \/ year.nan
        THEN NaN
        ELSE Num(DaysFromCivil(year.v, month.v, day.v) * 86400)

\* calculateAge(dateOfBirth) evaluated when the clock shows t
calculateAge(dateOfBirth, t) ==
    LET birthTimestamp == dateToTimestamp(dateOfBirth)
        nowSec         == EpochSec + (t \div 1000)
    IN  IF birthTimestamp.nan
        THEN NaN
        ELSE Num((nowSec - birthTimestamp.v) \div SecondsPerYear)

\* The holder's age in whole (365.25-day) years, from the date the record
\* holds, whatever the notation of that date.
HolderAge(rec, t) ==
    (EpochSec + (t \div 1000)
       - DaysFromCivil(rec.dateOfBirth.y, rec.dateOfBirth.m, rec.dateOfBirth.d) * 86400)
    \div SecondsPerYear

-----------------------------------------------------------------------------
(* Parameter validation *)

validateAgeThresholdNoUpper(threshold) == threshold >= 0

validateAgeThreshold(threshold) == threshold >= 0 /\ threshold <= 150

validateNationalityParams(countries) ==
    /\ Len(countries) # 0
    /\ \A i \in 1..Len(countries) : countries[i] \in SUPPORTED_COUNTRIES

DaoIdChars == {"a", "d", "o", "x", "1", "-", "_"}

\* daoId is a sequence of characters, or absent from params (undefined)
validateDaoId(params) ==
    /\ Has(params, "daoId")
    /\ Len(params.daoId) >= 3
    /\ Len(params.daoId) <= 50
    /\ \A i \in 1..Len(params.daoId) : params.daoId[i] \in DaoIdChars

Includes(s, x) == \E i \in 1..Len(s) : s[i] = x

-----------------------------------------------------------------------------
(* Errors: class name, machine-readable code, attributeType, and the class *)
(* of the error the message was built from.                                *)

Err(name, code, attr, cause) ==
    [name |-> name, code |-> code, attr |-> attr, cause |-> cause]

InvalidParametersError == Err("InvalidParametersError", "INVALID_PARAMETERS", "", "")

ProofGenerationError(attr, cause) ==
    Err("ProofGenerationError", "PROOF_GENERATION_FAILED", attr, cause)

\* new CircuitLoadError(message): circuitType is passed by no caller
CircuitLoadError(cause) == Err("CircuitLoadError", "CIRCUIT_LOAD_FAILED", "", cause)

NoErr == Err("", "", "", "")
NoAtt == [attributeType |-> "none"]

Ok(att)   == [ok |-> TRUE,  att |-> att,   err |-> NoErr]
Fail(err) == [ok |-> FALSE, att |-> NoAtt, err |-> err]
Pending   == [ok |-> FALSE, att |-> NoAtt, err |-> Err("pending", "", "", "")]

-----------------------------------------------------------------------------
(* Commitment function and nonces *)

Poseidon(inputs) == <<"poseidon", inputs>>

GenNonce(n)   == [src |-> "gen", n |-> n]
ParamNonce(p) == [src |-> "param", n |-> p.nonce]

\* params.nonce || generateNonce(): the number of nonces it draws
NonceUse(params) == IF Has(params, "nonce") THEN 0 ELSE 1

-----------------------------------------------------------------------------
(* Generation calls *)

Owner(t, n) == [t |-> t, n |-> n]
Direct == Owner("direct", 0)

\* The part of the state a generation call reads and writes while it runs
\* synchronously; several calls started by one handler thread it through.
\* g.now is the instant at which the handler runs.
Cur ==
    [now |-> now, calls |-> calls, seq |-> seq, proverCalls |-> proverCalls,
     nonceCtr |-> nonceCtr, isInitialized |-> isInitialized,
     circuits |-> circuits, circuitLoads |-> circuitLoads,
     mockPoseidon |-> mockPoseidon]

Commit(g) ==
    /\ calls' = g.calls
    /\ seq' = g.seq
    /\ proverCalls' = g.proverCalls
    /\ nonceCtr' = g.nonceCtr
    /\ isInitialized' = g.isInitialized
    /\ circuits' = g.circuits
    /\ circuitLoads' = g.circuitLoads
    /\ mockPoseidon' = g.mockPoseidon

\* A call that ended in its synchronous part.
EndedCall(g, eng, inp, owner, res) ==
    [eng |-> eng, kind |-> inp.kind, rec |-> inp.rec, params |-> inp.params,
     written |-> Written(inp),
     owner |-> owner, st |-> "done", startedAt |-> g.now, endedAt |-> g.now,
     deadline |-> g.now, dur |-> 0, invoked |-> 0, running |-> FALSE,
     nonce |-> GenNonce(0), res |-> res,
     seqStart |-> g.seq + 1, seqEnd |-> g.seq + 2]

\* A call suspended on the prover.
ProvingCall(g, eng, inp, owner, nonce, dur) ==
    [eng |-> eng, kind |-> inp.kind, rec |-> inp.rec, params |-> inp.params,
     written |-> Written(inp),
     owner |-> owner, st |-> "proving", startedAt |-> g.now, endedAt |-> g.now,
     deadline |-> g.now + PROOF_TIMEOUTS[inp.kind], dur |-> dur, invoked |-> 1,
     running |-> TRUE, nonce |-> nonce, res |-> Pending,
     seqStart |-> g.seq + 1, seqEnd |-> 0]

AddEnded(g, eng, inp, owner, res) ==
    [g EXCEPT !.calls = Append(@, EndedCall(g, eng, inp, owner, res)),
              !.seq = @ + 2]

AddProving(g, eng, inp, owner, nonce, dur) ==
    [g EXCEPT !.calls = Append(@, ProvingCall(g, eng, inp, owner, nonce, dur)),
              !.seq = @ + 1,
              !.proverCalls = @ + 1]

TakeNonceKeepsCounter(g, params) == g

\* params.nonce || generateNonce()
TakeNonce(g, params) == [g EXCEPT !.nonceCtr = @ + NonceUse(params)]
NonceOf(g, params) ==
    IF Has(params, "nonce") THEN ParamNonce(params) ELSE GenNonce(g.nonceCtr + 1)

\* the call's record once it has ended with result res
Settle(c, res) ==
    [c EXCEPT !.st = "done", !.endedAt = now, !.res = res, !.seqEnd = seq + 1]

-----------------------------------------------------------------------------
(* EnhancedProofGenerator: cache *)

\* JSON.stringify(params): the members in insertion order
JSONstringify(params) ==
    [i \in 1..Len(params.written) |->
        <<params.written[i], params.fields[params.written[i]]>>]

\* the UTF-16 code units of the reference ids in use (all ASCII, so these
\* are also their UTF-8 bytes)
CharCodes(s) ==
    CASE s = "123456789012" -> <<49, 50, 51, 52, 53, 54, 55, 56, 57, 48, 49, 50>>
      [] s = "223456789012" -> <<50, 50, 51, 52, 53, 54, 55, 56, 57, 48, 49, 50>>
      [] s = "323456789012" -> <<51, 50, 51, 52, 53, 54, 55, 56, 57, 48, 49, 50>>
      [] s = "423456789012" -> <<52, 50, 51, 52, 53, 54, 55, 56, 57, 48, 49, 50>>
      [] s = "Aa"           -> <<65, 97>>
      [] s = "BB"           -> <<66, 66>>

\* the decimal digits of one byte, as Array.prototype.join writes a number
Decimal(b) ==
    IF b >= 100 THEN <<b \div 100, (b \div 10) % 10, b % 10>>
    ELSE IF b >= 10 THEN <<b \div 10, b % 10>>
    ELSE <<b>>

\* Array.from(data).join(''): the bytes' decimal digits, nothing between them
RECURSIVE ByteDigits(_)
ByteDigits(bytes) ==
    IF bytes = <<>> THEN <<>>
    ELSE Decimal(Head(bytes)) \o ByteDigits(Tail(bytes))

Word == 65536

\* hash = (hash << 5) - hash + char; hash = hash & hash : a 32-bit step.
\* The hash is held as <<high half, low half>> of its two's complement.
HashStep(hash, char) ==
    LET lo == 31 * hash[2] + char
        hi == 31 * hash[1] + (lo \div Word)
    IN  <<hi % Word, lo % Word>>

RECURSIVE HashChars(_, _)
HashChars(hash, chars) ==
    IF chars = <<>> THEN hash
    ELSE HashChars(HashStep(hash, Head(chars)), Tail(chars))

\* the signed 32-bit integer held in <<high half, low half>>
ToInt32(hash) ==
    IF hash[1] >= Word \div 2 THEN (hash[1] - Word) * Word + hash[2]
    ELSE hash[1] * Word + hash[2]

\* hashInputs(inputs), inputs = [referenceId, proofType, JSON text].
\* With crypto.subtle: the decimal byte values of inputs.join('|'),
\* concatenated.  Without: the 32-bit rolling hash of inputs.join('|').
\* The leading referenceId is computed character by character.  The rest of
\* the joined string is kept as it is: in the first branch it stands for its
\* digits, in the second the hash of the whole string is a function of the
\* hash of its leading part and of the rest.
hashInputs(inputs) ==
    IF subtle
    THEN <<"bytes", ByteDigits(CharCodes(inputs[1])), Tail(inputs)>>
    ELSE <<"int32", ToInt32(HashChars(<<0, 0>>, CharCodes(inputs[1]))), Tail(inputs)>>

generateCacheKey(proofType, aadhaarData, params) ==
    <<proofType, hashInputs(<<aadhaarData.referenceId, proofType, JSONstringify(params)>>)>>

CacheLiveAlways(key) == key \in DOMAIN proofCache

\* cachedProof && cachedProof.expiresAt > Date.now()
CacheLive(key) == key \in DOMAIN proofCache /\ proofCache[key].expiresAt > now

cacheProofNoTtl(key, proofData) ==
    [k \in DOMAIN proofCache \cup {key} |->
        IF k = key
        THEN [proofData |-> proofData, createdAt |-> now, expiresAt |-> now]
        ELSE proofCache[k]]

\* the cache after cacheProof(key, proofData) at the current instant
cacheProof(key, proofData) ==
    [k \in DOMAIN proofCache \cup {key} |->
        IF k = key
        THEN [proofData |-> proofData, createdAt |-> now,
              expiresAt |-> now + CIRCUIT_CACHE_TTL]
        ELSE proofCache[k]]

-----------------------------------------------------------------------------
(* EnhancedProofGenerator: generation *)

\* validate*(params) at the head of each enhanced generation
EnhValid(kind, params) ==
    CASE kind = "age"         -> Has(params, "threshold") /\ validateAgeThreshold(params.threshold)
      [] kind = "nationality" -> Has(params, "allowedCountries")
                                 /\ validateNationalityParams(params.allowedCountries)
      [] kind = "uniqueness"  -> TRUE

\* age < params.threshold
EnhAgeRefused(rec, params) ==
    JsLess(calculateAge(rec.dateOfBirth, now), Num(params.threshold))

\* params.allowedCountries.includes('IN') || ...includes('91')
EnhNationalityAllowed(rec, params) ==
    Includes(params.allowedCountries, "IN") \/ Includes(params.allowedCountries, "91")

EnhPreconditionOk(kind, rec, params) ==
    CASE kind = "age"         -> ~EnhAgeRefused(rec, params)
      [] kind = "nationality" -> EnhNationalityAllowed(rec, params)
      [] kind = "uniqueness"  -> TRUE

\* params.daoId || 'global', params.epochId || '1'
DaoOrGlobal(params) == IF Has(params, "daoId") THEN params.daoId ELSE <<"global">>
EpochOrOne(params)  == IF Has(params, "epochId") THEN params.epochId ELSE "1"

EnhNullifier(rec, params) ==
    Poseidon(<<"nullifier", rec.referenceId, DaoOrGlobal(params), EpochOrOne(params)>>)

EnhCommitment(kind, rec, nonce) ==
    CASE kind = "age" ->
           Poseidon(<<"age", rec.referenceId, rec.name, rec.dateOfBirth, nonce>>)
      [] kind = "nationality" ->
           Poseidon(<<"nationality", rec.referenceId, rec.address, 91, nonce>>)
      [] kind = "uniqueness" ->
           Poseidon(<<"uniqueness", rec.referenceId, nonce>>)

EnhMetadata(c) ==
    CASE c.kind = "age" ->
           [threshold |-> c.params.threshold, timestamp |-> now,
            identityCommitment |-> EnhCommitment(c.kind, c.rec, c.nonce)]
      [] c.kind = "nationality" ->
           [countries |-> c.params.allowedCountries, timestamp |-> now,
            identityCommitment |-> EnhCommitment(c.kind, c.rec, c.nonce)]
      [] c.kind = "uniqueness" ->
           [daoId |-> DaoOrGlobal(c.params), daoIdSet |-> Has(c.params, "daoId"),
            epochId |-> EpochOrOne(c.params), epochIdSet |-> Has(c.params, "epochId"),
            timestamp |-> now,
            nullifier |-> EnhNullifier(c.rec, c.params),
            identityCommitment |-> EnhCommitment(c.kind, c.rec, c.nonce)]

\* the ProofData an enhanced generation builds from prover output number n
EnhProofData(c, n) ==
    [attributeType |-> c.kind,
     proof         |-> [system |-> "snarkjs", id |-> n],
     publicSignals |-> <<"signals", n>>,
     metadata      |-> EnhMetadata(c)]

\* The synchronous part of generateAgeProof / generateNationalityProof /
\* generateUniquenessProof: everything up to the await of the prover.
EnhRun(g, inp, owner) ==
    LET kind == inp.kind
        key  == generateCacheKey(kind, inp.rec, Obj(inp))
        g1   == TakeNonce(g, inp.params)
    IN
    IF ~EnhValid(kind, inp.params)
    THEN AddEnded(g, "enh", inp, owner, Fail(InvalidParametersError))
    ELSE IF CacheLive(key)
    THEN AddEnded(g, "enh", inp, owner, Ok(proofCache[key].proofData))
    ELSE IF ~EnhPreconditionOk(kind, inp.rec, inp.params)
    THEN AddEnded(g1, "enh", inp, owner,
                  Fail(ProofGenerationError(kind, "InvalidParametersError")))
    ELSE IF ~poseidon
    THEN AddEnded(g1, "enh", inp, owner, Fail(ProofGenerationError(kind, "TypeError")))
    ELSE IF kind \notin wasmCache \/ kind \notin zkeyCache
    THEN AddEnded(g1, "enh", inp, owner, Fail(ProofGenerationError(kind, "Error")))
    ELSE AddProving(g1, "enh", inp, owner, NonceOf(g, inp.params), 0)

-----------------------------------------------------------------------------
(* EnhancedProofGenerator.generateBatchProofs *)

NoBatch == [st |-> "none"]

KindOrder == <<"age", "nationality", "uniqueness">>

\* the calls started for the requested kinds, in the order of the source
RECURSIVE EBatchRun(_, _, _, _)
EBatchRun(g, rec, requests, k) ==
    IF k > Len(KindOrder) THEN g
    ELSE IF KindOrder[k] \in DOMAIN requests
         THEN EBatchRun(EnhRun(g, Input0(KindOrder[k], rec, requests[KindOrder[k]]),
                               Owner("ebatch", k)),
                        rec, requests, k + 1)
         ELSE EBatchRun(g, rec, requests, k + 1)

\* index in g.calls of the call started for the k-th kind
EBatchMember(g, k) ==
    CHOOSE i \in 1..Len(g.calls) : g.calls[i].owner = Owner("ebatch", k)

EBatchKinds(requests) == {k \in 1..Len(KindOrder) : KindOrder[k] \in DOMAIN requests}

\* Promise.all over the member promises, given the calls as they stand:
\* rejected with the first rejection, resolved once every member has resolved
EBatchSettle(eb, cs) ==
    LET ks     == DOMAIN eb.members
        failed == {k \in ks : cs[eb.members[k]].st = "done" /\ ~cs[eb.members[k]].res.ok}
        okdone == {k \in ks : cs[eb.members[k]].st = "done" /\ cs[eb.members[k]].res.ok}
        first  == CHOOSE k \in failed :
                     \A q \in failed : cs[eb.members[k]].seqEnd <= cs[eb.members[q]].seqEnd
        res    == [k \in okdone |-> cs[eb.members[k]].res.att]
    IN  IF eb.st # "running"
        THEN [eb EXCEPT !.results = res]
        ELSE IF failed # {}
        THEN [eb EXCEPT !.st = "rejected", !.err = cs[eb.members[first]].res.err,
                        !.results = res]
        ELSE IF okdone = ks
        THEN [eb EXCEPT !.st = "resolved", !.results = res]
        ELSE [eb EXCEPT !.results = res]

\* generateBatchProofs(aadhaarData, requests): its effect on the engine
EBatchBegin(rec, requests) ==
    /\ ebatch.st = "none"
    /\ LET g  == EBatchRun(Cur, rec, requests, 1)
           eb == [st |-> "running",
                  members |-> [k \in EBatchKinds(requests) |-> EBatchMember(g, k)],
                  results |-> <<>>, err |-> NoErr]
       IN  /\ Commit(g)
           /\ ebatch' = EBatchSettle(eb, g.calls)

\* generateBatchProofs(aadhaarData, requests) called on its own
EBatchStart(rec, requests) ==
    /\ EBatchBegin(rec, requests)
    /\ UNCHANGED <<workflow, retryCall, enhInitialized, subtle, inits, clears, now, engineVars, batch, protoVars>>

\* the continuation of generateBatchProofs when one of its calls has settled
EBatchAfter == ebatch' = IF ebatch.st = "none" THEN ebatch ELSE EBatchSettle(ebatch, calls')

\* EnhancedSolsticeSDK.generateAllProofsFromQR awaits generateBatchProofs and
\* hands its outcome on: the proofs when it resolved, its error when it rejected
generateAllProofsFromQR ==
    CASE ebatch.st = "resolved" -> [st |-> "returned", proofs |-> ebatch.results]
      [] ebatch.st = "rejected" -> [st |-> "thrown", err |-> ebatch.err]
      [] OTHER                  -> [st |-> ebatch.st]

-----------------------------------------------------------------------------
(* EnhancedProofGenerator: prover completion, initialize, sweep *)

\* snarkjs.groth16.fullProve returns: proof data is built and cached
EnhProverResolve(i) ==
    /\ i \in 1..Len(calls)
    /\ calls[i].eng = "enh" /\ calls[i].st = "proving"
    /\ LET c  == calls[i]
           pd == EnhProofData(c, c.seqStart)
       IN  /\ calls' = [calls EXCEPT ![i] = [Settle(c, Ok(pd)) EXCEPT !.running = FALSE]]
           /\ proofCache' = cacheProof(generateCacheKey(c.kind, c.rec, Obj(c)), pd)
    /\ seq' = seq + 1
    /\ EBatchAfter
    /\ UNCHANGED <<workflow, retryCall, enhInitialized, subtle, inits, clears, now, proverCalls, nonceCtr, poseidon, wasmCache, zkeyCache,
                   sdkVars, batch, protoVars>>

\* snarkjs.groth16.fullProve throws
EnhProverReject(i) ==
    /\ i \in 1..Len(calls)
    /\ calls[i].eng = "enh" /\ calls[i].st = "proving"
    /\ calls' = [calls EXCEPT ![i] =
          [Settle(calls[i], Fail(ProofGenerationError(calls[i].kind, "Error")))
             EXCEPT !.running = FALSE]]
    /\ seq' = seq + 1
    /\ EBatchAfter
    /\ UNCHANGED <<workflow, retryCall, enhInitialized, subtle, inits, clears, now, proverCalls, nonceCtr, engineVars, sdkVars, batch, protoVars>>

EnhTimeoutRetries(i) ==
    /\ i \in 1..Len(calls)
    /\ calls[i].eng = "enh" /\ calls[i].st = "proving"
    /\ now >= calls[i].deadline
    /\ calls' = [calls EXCEPT ![i] =
          [Settle(calls[i], Fail(ProofGenerationError(calls[i].kind, "Error:timeout")))
             EXCEPT !.invoked = @ + 1]]
    /\ proverCalls' = proverCalls + 1
    /\ seq' = seq + 1
    /\ EBatchAfter
    /\ UNCHANGED <<workflow, retryCall, enhInitialized, subtle, inits, clears, now, nonceCtr, engineVars, sdkVars, batch, protoVars>>

\* the setTimeout of generateProofWithSnarkjs fires; the prover keeps running
EnhTimeout(i) ==
    /\ i \in 1..Len(calls)
    /\ calls[i].eng = "enh" /\ calls[i].st = "proving"
    /\ now >= calls[i].deadline
    /\ calls' = [calls EXCEPT ![i] =
          Settle(calls[i], Fail(ProofGenerationError(calls[i].kind, "Error:timeout")))]
    /\ seq' = seq + 1
    /\ EBatchAfter
    /\ UNCHANGED <<workflow, retryCall, enhInitialized, subtle, inits, clears, now, proverCalls, nonceCtr, engineVars, sdkVars, batch, protoVars>>

EnhLateProverCaches(i) ==
    /\ i \in 1..Len(calls)
    /\ calls[i].eng = "enh" /\ calls[i].st = "done" /\ calls[i].running
    /\ calls' = [calls EXCEPT ![i].running = FALSE]
    /\ proofCache' = cacheProof(generateCacheKey(calls[i].kind, calls[i].rec, Obj(calls[i])),
                                EnhProofData(calls[i], calls[i].seqStart))
    /\ UNCHANGED <<workflow, retryCall, enhInitialized, subtle, inits, clears, now, seq, proverCalls, nonceCtr, poseidon, wasmCache, zkeyCache,
                   sdkVars, batch, ebatch, protoVars>>

\* the prover of a timed-out call finishes: resolve/reject on the settled
\* promise have no effect
EnhLateProver(i) ==
    /\ i \in 1..Len(calls)
    /\ calls[i].eng = "enh" /\ calls[i].st = "done" /\ calls[i].running
    /\ calls' = [calls EXCEPT ![i].running = FALSE]
    /\ UNCHANGED <<workflow, retryCall, enhInitialized, subtle, inits, clears, now, seq, proverCalls, nonceCtr, engineVars, sdkVars,
                   batch, ebatch, protoVars>>

\* EnhancedProofGenerator.initialize: Poseidon is built, then every circuit's
\* WASM and zkey are fetched; w and z are the fetches that succeed
EnhInitialize(w, z) ==
    /\ z \subseteq w /\ w \subseteq Kinds
    /\ poseidon' = TRUE
    /\ wasmCache' = wasmCache \cup w
    /\ zkeyCache' = zkeyCache \cup z
    /\ UNCHANGED <<workflow, retryCall, enhInitialized, subtle, inits, clears, now, calls, seq, proverCalls, nonceCtr, proofCache, sdkVars,
                   batch, ebatch, protoVars>>

\* EnhancedProofGenerator.initialize as its caller sees it: it throws when a
\* fetch failed, the CircuitLoadError of loadCircuitArtifacts wrapped in the
\* CircuitLoadError of initialize
initializeEngine(w, z) ==
    /\ z \subseteq w /\ w \subseteq Kinds
    /\ poseidon' = TRUE
    /\ wasmCache' = wasmCache \cup w
    /\ zkeyCache' = zkeyCache \cup z
    /\ inits' = Append(inits,
          [eng |-> "enh", next |-> [has |-> FALSE], failed |-> Kinds \ z,
           st  |-> IF z = Kinds THEN "done" ELSE "thrown",
           err |-> IF z = Kinds THEN NoErr ELSE CircuitLoadError("CircuitLoadError")])
    /\ UNCHANGED <<workflow, retryCall, enhInitialized, subtle, now, calls, seq, proverCalls, nonceCtr, proofCache, sdkVars,
                   batch, ebatch, protoVars, clears>>

SweptStrict(cache, t) ==
    [k \in {q \in DOMAIN cache : ~(cache[q].expiresAt < t)} |-> cache[k]]

\* the cache clearExpiredProofs leaves when it runs on `cache' at instant t
Swept(cache, t) ==
    [k \in {q \in DOMAIN cache : ~(cache[q].expiresAt <= t)} |-> cache[k]]

clearExpiredProofs ==
    /\ proofCache' = Swept(proofCache, now)
    /\ UNCHANGED <<workflow, retryCall, enhInitialized, subtle, inits, clears, now, calls, seq, proverCalls, nonceCtr, poseidon, wasmCache,
                   zkeyCache, sdkVars, batch, ebatch, protoVars>>

\* EnhancedSolsticeSDK.clearCache(): it calls clearExpiredProofs; `clears'
\* keeps the instant of the call, the events before it and the keys it left
clearCache ==
    /\ proofCache' = Swept(proofCache, now)
    /\ clears' = Append(clears, [at |-> now, seq |-> seq,
                                 left |-> DOMAIN Swept(proofCache, now)])
    /\ UNCHANGED <<workflow, retryCall, enhInitialized, subtle, inits, now, calls, seq, proverCalls, nonceCtr, poseidon, wasmCache,
                   zkeyCache, sdkVars, batch, ebatch, protoVars>>

-----------------------------------------------------------------------------
(* ProofGenerator: the mock engine behind SolsticeSDK *)

\* loadCircuit(circuitType): the (mock) circuit is put in the map
loadCircuit(g, kind) ==
    [g EXCEPT !.circuits = @ \cup {kind}, !.circuitLoads = @ + 1]

\* getCircuit(circuitType): the circuit of the map, loaded first if missing
getCircuit(g, kind) == IF kind \in g.circuits THEN g ELSE loadCircuit(g, kind)

\* ProofGenerator.initialize: the mock Poseidon is installed and the three
\* circuits are loaded
BasicInitialize(g) ==
    LET g1 == [g EXCEPT !.mockPoseidon = TRUE]
    IN  loadCircuit(loadCircuit(loadCircuit(g1, "age"), "nationality"), "uniqueness")

\* SolsticeSDK.initialize
SdkInit(g) ==
    IF g.isInitialized
    THEN g
    ELSE [BasicInitialize(g) EXCEPT !.isInitialized = TRUE]

\* SolsticeSDK.initialize up to its await of proofGenerator.initialize():
\* the flag is still unset while the three circuits are being loaded
SdkInitStart(g) == BasicInitialize(g)

\* the rest of SolsticeSDK.initialize, once proofGenerator.initialize() returned
SdkInitEnd(g) == [g EXCEPT !.isInitialized = TRUE]

\* validate*(params) at the head of each basic generation
BasicValid(kind, params) ==
    CASE kind = "age"         -> Has(params, "threshold") /\ validateAgeThreshold(params.threshold)
      [] kind = "nationality" -> Has(params, "allowedCountries")
                                 /\ validateNationalityParams(params.allowedCountries)
      [] kind = "uniqueness"  -> validateDaoId(params)

getCountryCode(state) == "IN"

\* age < params.threshold, evaluated at instant t
BasicAgeRefused(rec, params, t) ==
    JsLess(calculateAge(rec.dateOfBirth, t), Num(params.threshold))

BasicPreconditionOk(kind, rec, params, t) ==
    CASE kind = "age"         -> ~BasicAgeRefused(rec, params, t)
      [] kind = "nationality" -> Includes(params.allowedCountries, getCountryCode(rec.state))
      [] kind = "uniqueness"  -> TRUE

\* params.epochId || 'global'
EpochOrGlobal(params) == IF Has(params, "epochId") THEN params.epochId ELSE "global"

\* the proof object mockGenerateProof returns, the same for every call
MockProof ==
    [pi_a |-> "0x1234567890abcdef", pi_b |-> "0x1111222233334444",
     pi_c |-> "0xabcdef1234567890", protocol |-> "groth16", curve |-> "bn128"]

Signal(src, n, s) == [src |-> src, n |-> n, s |-> s]

\* inputs.age_threshold || inputs.dao_id || generateNonce().substring(0, 16)
ThirdSignal(c, n) ==
    CASE c.kind = "age"         -> Signal("age_threshold", c.params.threshold, <<>>)
      [] c.kind = "uniqueness"  -> Signal("dao_id", 0, c.params.daoId)
      [] c.kind = "nationality" -> Signal("gen", n + 2, <<>>)

\* the number of nonces mockGenerateProof draws
MockNonceUse(c) == IF c.kind = "nationality" THEN 2 ELSE 1

MockSignalsFixed(c, n, t) == <<Signal("gen", 0, <<>>), Signal("now", t, <<>>), ThirdSignal(c, 0)>>

\* publicSignals of the mock proof made at instant t, n nonces drawn before
MockSignals(c, n, t) == <<Signal("gen", n + 1, <<>>), Signal("now", t, <<>>), ThirdSignal(c, n)>>

BasicMetadataFixed(c, t) ==
    CASE c.kind = "age" ->
           [threshold |-> 18, timestamp |-> t]
      [] c.kind = "nationality" ->
           [countries |-> c.params.allowedCountries, timestamp |-> t]
      [] c.kind = "uniqueness" ->
           [daoId |-> c.params.daoId, epochId |-> EpochOrGlobal(c.params), timestamp |-> t]

\* metadata of the ProofData a basic generation returns at instant t
BasicMetadata(c, t) ==
    CASE c.kind = "age" ->
           [threshold |-> c.params.threshold, timestamp |-> t]
      [] c.kind = "nationality" ->
           [countries |-> c.params.allowedCountries, timestamp |-> t]
      [] c.kind = "uniqueness" ->
           [daoId |-> c.params.daoId, epochId |-> EpochOrGlobal(c.params), timestamp |-> t]

BasicProofData(c, n, t) ==
    [attributeType |-> c.kind,
     proof         |-> MockProof,
     publicSignals |-> MockSignals(c, n, t),
     metadata      |-> BasicMetadata(c, t)]

\* inputs.reduce((acc, val) => acc + val.toString(), '')
RECURSIVE Concat(_)
Concat(strs) == IF strs = <<>> THEN "" ELSE Head(strs) \o Concat(Tail(strs))

MockHashLength == 64

\* mockPoseidon(inputs).toString(): the inputs written one after the other,
\* cut after MockHashLength characters
MockPoseidon(inputs) ==
    LET hash == Concat(inputs)
    IN  IF Len(hash) > MockHashLength THEN SubSeq(hash, 1, MockHashLength) ELSE hash

\* nullifierHash of the basic generateUniquenessProof
BasicNullifier(rec, params) ==
    MockPoseidon(<<rec.referenceId, Concat(params.daoId), EpochOrGlobal(params)>>)

\* The part of generateAgeProof / generateNationalityProof /
\* generateUniquenessProof that runs before the mock prover's timer is set.
BasicRun(g, inp, owner) ==
    LET kind == inp.kind
        g1   == getCircuit(g, kind)
        g2   == TakeNonce(g1, inp.params)
    IN
    IF ~BasicValid(kind, inp.params)
    THEN AddEnded(g, "basic", inp, owner, Fail(InvalidParametersError))
    ELSE IF ~BasicPreconditionOk(kind, inp.rec, inp.params, g.now)
    THEN AddEnded(g2, "basic", inp, owner,
                  Fail(ProofGenerationError(kind, "InvalidParametersError")))
    ELSE IF ~g.mockPoseidon
    THEN AddEnded(g2, "basic", inp, owner, Fail(ProofGenerationError(kind, "TypeError")))
    ELSE AddProving(g2, "basic", inp, owner, NonceOf(g1, inp.params), 0)

\* the mock proof of call i is ready: the call returns its ProofData
BasicSettle(g, i) ==
    LET c == g.calls[i]
    IN  [g EXCEPT !.calls[i] = [c EXCEPT !.st = "done", !.endedAt = g.now,
                                         !.running = FALSE,
                                         !.res = Ok(BasicProofData(c, g.nonceCtr, g.now)),
                                         !.seqEnd = g.seq + 1],
                  !.seq = @ + 1,
                  !.nonceCtr = @ + MockNonceUse(c)]

\* what generate*ProofWithQR hands to its caller for a finished call: the
\* ProofData, or the generator's error wrapped in a ProofGenerationError
SdkResult(c) ==
    IF c.res.ok THEN c.res ELSE Fail(ProofGenerationError(c.kind, c.res.err.name))

-----------------------------------------------------------------------------
(* SolsticeSDK.batchGenerate *)

Request(type, params) == [type |-> type, params |-> params]

ChunkEndAll(b) == Len(b.reqs)

\* chunk(requests, 3): the last request index of the chunk that starts at k
ChunkEnd(b) ==
    IF b.chunkStart + ChunkSize - 1 < Len(b.reqs)
    THEN b.chunkStart + ChunkSize - 1
    ELSE Len(b.reqs)

ChunkOf(b) == b.chunkStart..ChunkEnd(b)

\* the generation calls of requests k.. of the current chunk are started
RECURSIVE BatchRun(_, _, _)
BatchRun(g, b, k) ==
    IF k > ChunkEnd(b) THEN g
    ELSE BatchRun(BasicRun(g, Input0(b.reqs[k].type, b.rec, b.reqs[k].params),
                           Owner("batch", k)),
                  b, k + 1)

BatchMember(g, k) ==
    CHOOSE i \in 1..Len(g.calls) : g.calls[i].owner = Owner("batch", k)

\* the ascending sequence of the members of a finite set of integers
RECURSIVE SortedSeq(_)
SortedSeq(S) ==
    IF S = {} THEN <<>>
    ELSE LET m == CHOOSE x \in S : \A y \in S : x <= y
         IN  <<m>> \o SortedSeq(S \ {m})

\* `${request.type}: ${error}`: one string made of the request's type, the
\* error's name and its message; the error's code and attributeType are no
\* part of it
ErrorEntry(type, err) == [text |-> <<type, err.name, err.cause>>]

BatchNoCatch(b, type, err) == [b EXCEPT !.st = "thrown"]

\* catch (error) { errors.push(`${request.type}: ${error}`); return null; }
BatchCatch(b, type, err) ==
    [b EXCEPT !.errors = Append(@, ErrorEntry(type, err))]

RECURSIVE BatchCatchAll(_, _, _)
BatchCatchAll(b, cs, ks) ==
    IF ks = <<>> THEN b
    ELSE BatchCatchAll(BatchCatch(b, b.reqs[Head(ks)].type, cs[b.members[Head(ks)]].res.err),
                       cs, Tail(ks))

\* the members of a finite set of integers, by ascending key[k], then by k
RECURSIVE SortedBy(_, _)
SortedBy(S, key) ==
    IF S = {} THEN <<>>
    ELSE LET m == CHOOSE x \in S :
                    \A y \in S : key[x] < key[y] \/ (key[x] = key[y] /\ x <= y)
         IN  <<m>> \o SortedBy(S \ {m}, key)

ChunkResultsAsSettled(g, b) ==
    SortedBy(ChunkOf(b), [k \in ChunkOf(b) |-> g.calls[b.members[k]].seqEnd])

\* const chunkResults = await Promise.all(chunkPromises): the positions of
\* the results are those of the chunk's requests
ChunkResults(g, b) == SortedSeq(ChunkOf(b))

PushResultUnfiltered(b, c) == [b EXCEPT !.proofs = Append(@, c.res.att)]

\* one result of the chunk: pushed unless it is null
PushResult(b, c) ==
    IF c.res.ok THEN [b EXCEPT !.proofs = Append(@, c.res.att)] ELSE b

\* proofs.push(...chunkResults.filter((p) => p !== null))
RECURSIVE BatchPush(_, _, _)
BatchPush(b, cs, ks) ==
    IF ks = <<>> THEN b
    ELSE BatchPush(PushResult(b, cs[b.members[Head(ks)]]), cs, Tail(ks))

\* One chunk is started: every request's generation runs up to its first
\* suspension; the requests refused by validation reach their catch first,
\* the ones refused after getCircuit next, each group in request order.
\* When every member of the chunk has settled its proofs are pushed and the
\* next chunk is started, or the result is returned after the last chunk.
RECURSIVE BatchStartChunk(_, _)
RECURSIVE BatchContinue(_, _)
BatchStartChunk(g, b) ==
    LET g1 == BatchRun(g, b, b.chunkStart)
        b1 == [b EXCEPT !.members =
                 [k \in DOMAIN b.members \cup ChunkOf(b) |->
                    IF k \in ChunkOf(b) THEN BatchMember(g1, k) ELSE b.members[k]]]
        failed(name) == {k \in ChunkOf(b) :
                           /\ g1.calls[b1.members[k]].st = "done"
                           /\ g1.calls[b1.members[k]].res.err.name = name}
        b2 == BatchCatchAll(b1, g1.calls, SortedSeq(failed("InvalidParametersError")))
        b3 == BatchCatchAll(b2, g1.calls, SortedSeq(failed("ProofGenerationError")))
    IN  BatchContinue(g1, b3)

BatchContinue(g, b) ==
    IF b.st # "running" THEN [g |-> g, b |-> b]
    ELSE IF \E k \in ChunkOf(b) : g.calls[b.members[k]].st # "done"
    THEN [g |-> g, b |-> b]
    ELSE LET b1 == BatchPush(b, g.calls, ChunkResults(g, b))
         IN  IF ChunkEnd(b) >= Len(b.reqs)
             THEN [g |-> g, b |-> [b1 EXCEPT !.st = "returned"]]
             ELSE BatchStartChunk(g, [b1 EXCEPT !.chunkStart = ChunkEnd(b) + 1])

\* batchGenerate(qrData, requests), rec being the record qrData parses to
batchGenerate(rec, requests) ==
    /\ batch.st = "none"
    /\ LET b == [st |-> "running", rec |-> rec, reqs |-> requests, chunkStart |-> 1,
                 members |-> <<>>, proofs |-> <<>>, errors |-> <<>>]
           r == IF requests = <<>>
                THEN [g |-> SdkInit(Cur), b |-> [b EXCEPT !.st = "returned"]]
                ELSE BatchStartChunk(SdkInit(Cur), b)
       IN  /\ Commit(r.g)
           /\ batch' = r.b
    /\ UNCHANGED <<workflow, retryCall, enhInitialized, subtle, inits, clears, now, engineVars, ebatch, protoVars>>

\* { proofs, errors: errors.length > 0 ? errors : undefined }
BatchResult ==
    [proofs |-> batch.proofs,
     errorsDefined |-> Len(batch.errors) > 0,
     errors |-> batch.errors]

-----------------------------------------------------------------------------
(* The clock *)

\* A mock proof is due less than MockDelayMax after its start and its timer
\* fires before any later instant is observed.
MockDue(cs, t) ==
    \A i \in 1..Len(cs) :
        (cs[i].eng = "basic" /\ cs[i].st = "proving")
            => t <= cs[i].startedAt + MockDelayMax - 1

Tick(t) ==
    /\ t > now
    /\ MockDue(calls, t)
    /\ now' = t
    /\ UNCHANGED <<workflow, retryCall, enhInitialized, subtle, inits, clears, calls, proverCalls, nonceCtr, seq, engineVars, sdkVars,
                   batch, ebatch, protoVars>>

-----------------------------------------------------------------------------
(* SolsticeSDK: the challenge / response protocol *)

Undefined == [undefined |-> TRUE]
Defined(v) == [undefined |-> FALSE, v |-> v]

\* x || d for a number x that may be missing: 0 and undefined give d
NumOr(p, f, d) == IF Has(p, f) /\ p[f] # 0 THEN p[f] ELSE d

\* formatChallengeParams(proofType, params)
formatChallengeParams(proofType, params) ==
    CASE proofType = "age" ->
           [type |-> "age", threshold |-> NumOr(params, "threshold", 18)]
      [] proofType = "nationality" ->
           [type |-> "nationality",
            allowedCountries |-> IF Has(params, "allowedCountries")
                                 THEN params.allowedCountries ELSE <<>>]
      [] proofType = "uniqueness" ->
           [type |-> "uniqueness",
            scope |-> IF Has(params, "scope") THEN params.scope ELSE "global"]

\* the challenge generateChallenge builds at instant t, n nonces drawn before
NewChallenge(proofType, params, options, t, n) ==
    [challengeId |-> GenNonce(n + 1),
     appId       |-> "app",
     appName     |-> "App",
     proofType   |-> proofType,
     params      |-> formatChallengeParams(proofType, params),
     expiresAt   |-> t + NumOr(options, "expirationSeconds", DefaultExpirationSeconds) * 1000,
     callbackUrl |-> IF Has(options, "callbackUrl")
                     THEN Defined(options.callbackUrl) ELSE Undefined,
     nonce       |-> IF Has(options, "nonce") THEN ParamNonce(options) ELSE GenNonce(n + 2),
     createdAt   |-> t]

\* JSON.stringify leaves out the properties whose value is undefined
JSONChallenge(ch) ==
    IF ch.callbackUrl.undefined
    THEN [f \in DOMAIN ch \ {"callbackUrl"} |-> ch[f]]
    ELSE ch

\* JSON.stringify(qrData) and its base64 form
Json(v)      == [enc |-> "json", v |-> v]
Base64(text) == [enc |-> "base64", v |-> text]

qrDataOf(ch)        == Json([challenge |-> JSONChallenge(ch), version |-> "1.0.0"])
qrDataEncodedOf(ch) == Base64(qrDataOf(ch))

\* parseChallenge(qrData): JSON first, base64 of JSON next
parseChallenge(qr) ==
    LET text   == IF qr.enc = "json" THEN qr ELSE qr.v
        parsed == text.v
    IN  IF text.enc # "json" \/ ~Has(parsed, "challenge")
        THEN [ok |-> FALSE]
        ELSE [ok |-> TRUE, challenge |-> parsed.challenge]

\* generateChallenge(appId, appName, proofType, params, options); `asked' and
\* `options' keep the params and the options the verifier passed in
generateChallenge(proofType, params, options) ==
    LET ch == NewChallenge(proofType, params, options, now, nonceCtr)
    IN  /\ challenges' = Append(challenges,
               [challenge |-> ch, qrData |-> qrDataOf(ch),
                qrDataEncoded |-> qrDataEncodedOf(ch), asked |-> params,
                options |-> options])
        /\ nonceCtr' = nonceCtr + 1 + NonceUse(options)
        /\ UNCHANGED <<workflow, retryCall, enhInitialized, subtle, inits, clears, now, calls, seq, proverCalls, engineVars, sdkVars,
                       batch, ebatch, responds, verifies>>

ChallengeExpiredNever(challenge, t) == FALSE

\* Date.now() > challenge.expiresAt
ChallengeExpired(challenge, t) == t > challenge.expiresAt

NoResponse == [challengeId |-> GenNonce(0)]

\* the response respondToChallenge builds from the ProofData at instant t
ResponseOf(challenge, att, t) ==
    [challengeId |-> challenge.challengeId,
     proof |-> [pi_a |-> att.proof.pi_a, pi_b |-> att.proof.pi_b,
                pi_c |-> att.proof.pi_c, publicSignals |-> att.publicSignals],
     identityCommitment |-> att.publicSignals[1],
     timestamp |-> t]

\* respondToChallenge(challengeQR, aadhaarData) up to its first suspension on
\* the prover.  loads and proved count the loadCircuit executions and the
\* prover invocations of this part.
respondToChallenge(qr, rec) ==
    LET g0     == SdkInit(Cur)
        parsed == parseChallenge(qr)
        n      == Len(responds) + 1
        g1     == BasicRun(g0, Input0(parsed.challenge.proofType, rec,
                                      parsed.challenge.params),
                           Owner("respond", n))
        c      == g1.calls[Len(g1.calls)]
        entry(g, st, call, err) ==
            [qr |-> qr, rec |-> rec, st |-> st, startedAt |-> now,
             wasInitialized |-> isInitialized,
             loads |-> g.circuitLoads - circuitLoads,
             proved |-> g.proverCalls - proverCalls,
             parsed |-> parsed, call |-> call,
             response |-> NoResponse, err |-> err]
        wrapped(cause) == ProofGenerationError("", cause)
    IN  /\ IF ~parsed.ok
           THEN /\ Commit(g0)
                /\ responds' = Append(responds,
                       entry(g0, "thrown", 0, wrapped("InvalidParametersError")))
           ELSE IF ChallengeExpired(parsed.challenge, now)
           THEN /\ Commit(g0)
                /\ responds' = Append(responds,
                       entry(g0, "thrown", 0, wrapped("InvalidParametersError")))
           ELSE IF c.st = "done"
           THEN /\ Commit(g1)
                /\ responds' = Append(responds,
                       entry(g1, "thrown", Len(g1.calls), wrapped(c.res.err.name)))
           ELSE /\ Commit(g1)
                /\ responds' = Append(responds,
                       entry(g1, "pending", Len(g1.calls), NoErr))
        /\ UNCHANGED <<workflow, retryCall, enhInitialized, subtle, inits, clears, now, engineVars, batch, ebatch, challenges, verifies>>

\* the continuation of respondToChallenge when its generation has returned
RespondAfter(rs, cs, t) ==
    [n \in DOMAIN rs |->
        IF rs[n].st = "pending" /\ cs[rs[n].call].st = "done"
        THEN [rs[n] EXCEPT !.st = "returned",
                           !.response = ResponseOf(rs[n].parsed.challenge,
                                                   cs[rs[n].call].res.att, t)]
        ELSE rs[n]]

NullResponse == [null |-> TRUE]

VerifyResult(verified, challengeId, error) ==
    [verified |-> verified, challengeId |-> challengeId, error |-> error]

verifyProofResponseNoIdCheck(challengeId, proofResponse) ==
    IF Has(proofResponse, "null")
    THEN VerifyResult(FALSE, challengeId, "Verification failed: TypeError")
    ELSE IF \/ ~Has(proofResponse, "proof")
            \/ ~Has(proofResponse.proof, "pi_a")
            \/ ~Has(proofResponse.proof, "publicSignals")
    THEN VerifyResult(FALSE, challengeId, "Invalid proof structure")
    ELSE VerifyResult(TRUE, challengeId, "")

\* the result of verifyProofResponse(challengeId, proofResponse)
verifyProofResponse(challengeId, proofResponse) ==
    IF Has(proofResponse, "null")
    THEN VerifyResult(FALSE, challengeId, "Verification failed: TypeError")
    ELSE IF ~Has(proofResponse, "challengeId") \/ proofResponse.challengeId # challengeId
    THEN VerifyResult(FALSE, challengeId, "Challenge ID mismatch")
    ELSE IF \/ ~Has(proofResponse, "proof")
            \/ ~Has(proofResponse.proof, "pi_a")
            \/ ~Has(proofResponse.proof, "publicSignals")
    THEN VerifyResult(FALSE, challengeId, "Invalid proof structure")
    ELSE VerifyResult(TRUE, challengeId, "")

\* a verifyProofResponse call: the SDK is initialized first
VerifyCall(challengeId, proofResponse) ==
    /\ Commit(SdkInit(Cur))
    /\ verifies' = Append(verifies,
           [challengeId |-> challengeId, response |-> proofResponse, at |-> now,
            result |-> verifyProofResponse(challengeId, proofResponse)])
    /\ UNCHANGED <<workflow, retryCall, enhInitialized, subtle, inits, clears, now, engineVars, batch, ebatch, challenges, responds>>

-----------------------------------------------------------------------------
(* The mock prover's timer *)

\* The timer of call i fires d after the call's start: mockGenerateProof
\* resolves, the generation returns, and whoever awaited it goes on.
BasicProverResolve(i, d) ==
    /\ i \in 1..Len(calls)
    /\ calls[i].eng = "basic" /\ calls[i].st = "proving"
    /\ LET t == calls[i].startedAt + d
       IN  /\ t >= now
           /\ MockDue(calls, t)
           /\ LET g1 == BasicSettle([Cur EXCEPT !.now = t], i)
                  r  == BatchContinue(g1, batch)
              IN  /\ Commit(r.g)
                  /\ batch' = r.b
                  /\ responds' = RespondAfter(responds, r.g.calls, t)
           /\ now' = t
    /\ UNCHANGED <<workflow, retryCall, enhInitialized, subtle, inits, clears, engineVars, ebatch, challenges, verifies>>

\* generate*ProofWithQR(qrData, params), rec being the record qrData parses to
generateProofWithQR(inp) ==
    /\ Commit(BasicRun(SdkInit(Cur), inp, Owner("sdk", 0)))
    /\ UNCHANGED <<workflow, retryCall, enhInitialized, subtle, inits, clears, now, engineVars, batch, ebatch, protoVars>>

\* what an initialize() execution goes on with when it returns: nothing, or
\* the generation of the generate*ProofWithQR call that awaited it
NoNext == [has |-> FALSE]
ThenGenerate(inp) == [has |-> TRUE, inp |-> inp]

InitializeNeverReturnsAtOnce(flag) == FALSE

\* if (this.isInitialized) { return; }
InitializeReturnsAtOnce(flag) == flag

\* SolsticeSDK.initialize() on an SDK whose flag is unset, up to its await;
\* calls made before it returns find the flag unset as well
initializeStart(next) ==
    /\ ~InitializeReturnsAtOnce(isInitialized)
    /\ Commit(SdkInitStart(Cur))
    /\ inits' = Append(inits, [eng |-> "sdk", st |-> "loading", next |-> next])
    /\ UNCHANGED <<workflow, retryCall, enhInitialized, subtle, now, engineVars, batch, ebatch, protoVars, clears>>

\* initialize() execution k returns, and the call that awaited it goes on
initializeEnd(k) ==
    /\ k \in 1..Len(inits)
    /\ inits[k].eng = "sdk"
    /\ inits[k].st = "loading"
    /\ LET g1 == SdkInitEnd(Cur)
       IN  IF inits[k].next.has
           THEN Commit(BasicRun(g1, inits[k].next.inp, Owner("sdk", 0)))
           ELSE Commit(g1)
    /\ inits' = [inits EXCEPT ![k].st = "done"]
    /\ UNCHANGED <<workflow, retryCall, enhInitialized, subtle, now, engineVars, batch, ebatch, protoVars, clears>>

\* generate*ProofWithQR on an SDK whose flag is set: no initialize() call
generateProofInitialized(inp) ==
    /\ isInitialized
    /\ Commit(BasicRun(Cur, inp, Owner("sdk", 0)))
    /\ UNCHANGED <<workflow, retryCall, enhInitialized, subtle, inits, now, engineVars, batch, ebatch, protoVars, clears>>

SolsticeError(cause) == Err("SolsticeError", "UNKNOWN_ERROR", "", cause)

\* initialize() of either SDK called when its flag is set
initializeAgain(eng) ==
    /\ eng \in {"sdk", "esdk"}
    /\ InitializeReturnsAtOnce(IF eng = "sdk" THEN isInitialized ELSE enhInitialized)
    /\ inits' = Append(inits, [eng |-> eng, st |-> "returned", next |-> NoNext])
    /\ UNCHANGED <<workflow, retryCall, enhInitialized, subtle, now, calls, seq, proverCalls, nonceCtr,
                   engineVars, sdkVars, batch, ebatch, protoVars, clears>>

\* EnhancedSolsticeSDK.initialize() up to its await of proofGenerator.initialize()
enhInitializeStart ==
    /\ ~InitializeReturnsAtOnce(enhInitialized)
    /\ inits' = Append(inits, [eng |-> "esdk", st |-> "loading", next |-> NoNext])
    /\ UNCHANGED <<workflow, retryCall, enhInitialized, subtle, now, calls, seq, proverCalls, nonceCtr,
                   engineVars, sdkVars, batch, ebatch, protoVars, clears>>

\* execution k of EnhancedSolsticeSDK.initialize() goes on after its await:
\* the generator has fetched the WASM files w and the zkey files z; it threw
\* unless every fetch succeeded, and then the flag is not assigned
enhInitializeEnd(k, w, z) ==
    /\ k \in 1..Len(inits)
    /\ inits[k].eng = "esdk"
    /\ inits[k].st = "loading"
    /\ z \subseteq w /\ w \subseteq Kinds
    /\ poseidon' = TRUE
    /\ wasmCache' = wasmCache \cup w
    /\ zkeyCache' = zkeyCache \cup z
    /\ enhInitialized' = IF z = Kinds THEN TRUE ELSE enhInitialized
    /\ inits' = [inits EXCEPT ![k].st = IF z = Kinds THEN "done" ELSE "thrown"]
    /\ UNCHANGED <<workflow, retryCall, subtle, now, calls, seq, proverCalls, nonceCtr, proofCache, sdkVars,
                   batch, ebatch, protoVars, clears>>

\* SolsticeSDK.initialize()
initialize ==
    /\ Commit(SdkInit(Cur))
    /\ UNCHANGED <<workflow, retryCall, enhInitialized, subtle, inits, clears, now, engineVars, batch, ebatch, protoVars>>

-----------------------------------------------------------------------------
(* Inputs *)

Date(fmt, y, m, d) == [fmt |-> fmt, y |-> y, m |-> m, d |-> d]

Record(id, dob, st) ==
    [referenceId |-> id, name |-> "holder", dateOfBirth |-> dob,
     state |-> st, address |-> st]

AdultISO == Record("123456789012", Date("ISO", 1995, 1, 1), "KA")
AdultDMY == Record("223456789012", Date("DMY", 1995, 1, 1), "KA")
MinorISO == Record("323456789012", Date("ISO", 2015, 6, 15), "KA")
MinorDMY == Record("423456789012", Date("DMY", 2015, 6, 15), "DL")

DaoId == <<"d", "a", "o", "-", "1">>

Input(kind, rec, params) == Input0(kind, rec, params)

\* one fingerprint per kind, each passing its preconditions
CacheInputs ==
    { Input("age", AdultDMY, [threshold |-> 18]),
      Input("nationality", AdultDMY, [allowedCountries |-> <<"IN">>]),
      Input("uniqueness", AdultDMY, [daoId |-> DaoId, epochId |-> "e1"]) }

AgeInputs ==
    { Input("age", r, [threshold |-> t]) :
        r \in {AdultISO, AdultDMY, MinorISO, MinorDMY}, t \in {0, 18, 151} }

NationalityInputs ==
    { Input("nationality", r, [allowedCountries |-> a]) :
        r \in {AdultISO, MinorDMY},
        a \in {<<"IN">>, <<"KA", "MH">>, <<"DL">>, <<"US", "IN">>, <<>>} }

UniquenessInputs ==
    { Input("uniqueness", AdultISO, [daoId |-> DaoId, epochId |-> "e1"]),
      Input("uniqueness", AdultISO, [daoId |-> DaoId]),
      Input("uniqueness", AdultISO, [daoId |-> <<"x">>]),
      Input("uniqueness", AdultISO, [scope |-> "global"]) }

GenInputs == AgeInputs \cup NationalityInputs \cup UniquenessInputs

\* outcomes of the artifact fetches of one initialize(): <<WASM ok, zkey ok>>
\* requests objects handed to generateBatchProofs
EBatchRequests ==
    { [age |-> [threshold |-> 18], nationality |-> [allowedCountries |-> <<"IN">>]],
      [age |-> [threshold |-> 18], nationality |-> [allowedCountries |-> <<"DL">>],
       uniqueness |-> [daoId |-> DaoId]],
      [nationality |-> [allowedCountries |-> <<"IN">>], uniqueness |-> [daoId |-> DaoId]],
      [age |-> [threshold |-> 151]] }

LoadOutcomes ==
    { <<Kinds, Kinds>>,
      <<{"age", "nationality"}, {"age"}>>,
      <<{}, {}>> }

-----------------------------------------------------------------------------
(* Initial state: the objects right after construction *)

\* every object right after construction; the runtime is not chosen yet
Constructed ==
    /\ now = 0
    /\ calls = <<>>
    /\ proverCalls = 0
    /\ nonceCtr = 0
    /\ seq = 0
    /\ proofCache = <<>>
    /\ poseidon = FALSE
    /\ wasmCache = {}
    /\ zkeyCache = {}
    /\ isInitialized = FALSE
    /\ circuits = {}
    /\ circuitLoads = 0
    /\ mockPoseidon = FALSE
    /\ batch = NoBatch
    /\ ebatch = NoBatch
    /\ challenges = <<>>
    /\ responds = <<>>
    /\ verifies = <<>>
    /\ clears = <<>>
    /\ inits = <<>>
    /\ enhInitialized = FALSE
    /\ retryCall = NoBatch
    /\ workflow = NoBatch

\* a runtime that offers WebCrypto (a browser page in a secure context)
Init == Constructed /\ subtle = TRUE

\* any runtime
InitAnyRuntime == Constructed /\ subtle \in BOOLEAN

-----------------------------------------------------------------------------
(* The enhanced engine *)

EnhGenerate(inp) ==
    /\ Commit(EnhRun(Cur, inp, Direct))
    /\ UNCHANGED <<workflow, retryCall, enhInitialized, subtle, inits, clears, now, engineVars, batch, ebatch, protoVars>>

EngineInitialize    == \E o \in LoadOutcomes : EnhInitialize(o[1], o[2])
EngineProverResolve == \E i \in 1..Len(calls) : EnhProverResolve(i)
EngineProverReject  == \E i \in 1..Len(calls) : EnhProverReject(i)
EngineTimeout       == \E i \in 1..Len(calls) : EnhTimeout(i)
EngineLateProver    == \E i \in 1..Len(calls) : EnhLateProver(i)
EngineSweep         == clearExpiredProofs

EngineSteps ==
    \/ EngineInitialize
    \/ EngineProverResolve
    \/ EngineProverReject
    \/ EngineTimeout
    \/ EngineLateProver
    \/ EngineSweep

\* every call of one behaviour is for the fingerprint of its first call
CacheGenerate ==
    \E inp \in CacheInputs :
        /\ Len(calls) < MaxCalls
        /\ calls # <<>> => inp.kind = calls[1].kind
        /\ EnhGenerate(inp)

GenGenerate == \E inp \in GenInputs : Len(calls) < MaxGenCalls /\ EnhGenerate(inp)

EBatchGenerate ==
    \E rec \in {AdultDMY, MinorDMY}, requests \in EBatchRequests : EBatchStart(rec, requests)

CacheTick == \E t \in CacheTimes : Tick(t)
GenTick   == \E t \in GenTimes : Tick(t)

CacheNext  == CacheGenerate \/ EngineSteps \/ CacheTick
GenNext    == GenGenerate \/ EngineSteps \/ GenTick
EBatchNext == EBatchGenerate \/ EngineSteps \/ GenTick

\* the caching engine under repeated and concurrent calls
SpecCache == Init /\ [][CacheNext]_vars

\* the caching engine over the whole range of records and params
SpecGen == Init /\ [][GenNext]_vars

\* one generateBatchProofs call
SpecEBatch == Init /\ [][EBatchNext]_vars

-----------------------------------------------------------------------------
(* SolsticeSDK: inputs and specifications *)

EmptyObj == [f \in {} |-> 0]

\* the instants at which the clock is observed around SDK calls
SdkTimes == {0, 500}

\* ... and around challenges that live one second
ProtoTimes == {0, 1000, 1001}

SdkInputs ==
    { Input("age", r, [threshold |-> t]) :
        r \in {AdultISO, AdultDMY, MinorISO, MinorDMY}, t \in {0, 11, 12, 18, 151} }
    \cup
    { Input("age", AdultDMY, EmptyObj),
      Input("nationality", AdultDMY, [allowedCountries |-> <<"IN">>]),
      Input("nationality", AdultDMY, [allowedCountries |-> <<"US">>]),
      Input("uniqueness", AdultDMY, [daoId |-> DaoId]),
      Input("uniqueness", AdultDMY, [epochId |-> "e1"]) }

BatchRequestPool ==
    { Request("age", [threshold |-> 18]),
      Request("nationality", [allowedCountries |-> <<"IN">>]),
      Request("nationality", [allowedCountries |-> <<"DL">>]),
      Request("uniqueness", [daoId |-> DaoId]) }

BatchRequestLists == UNION { [1..n -> BatchRequestPool] : n \in 0..MaxBatchReqs }

\* <<proofType, params, options>> handed to generateChallenge
ChallengeInputs ==
    { <<"age", [threshold |-> 18], EmptyObj>>,
      <<"age", [threshold |-> 18], [expirationSeconds |-> 1]>>,
      <<"age", [threshold |-> 0], [expirationSeconds |-> 0]>>,
      <<"age", [threshold |-> 21], [expirationSeconds |-> -1]>>,
      <<"nationality", [allowedCountries |-> <<"IN">>], [expirationSeconds |-> 1]>>,
      <<"uniqueness", [daoId |-> DaoId], EmptyObj>>,
      <<"uniqueness", [daoId |-> DaoId, scope |-> "dao-1"], [expirationSeconds |-> 1]>> }

\* what a holder may scan: the forms of the issued challenges, or something else
ScannedQRs ==
    {challenges[k].qrData : k \in 1..Len(challenges)}
    \cup {challenges[k].qrDataEncoded : k \in 1..Len(challenges)}
    \cup {Json([version |-> "1.0.0"])}

\* the challenge ids a verifier may check against
CheckedIds == {challenges[k].challenge.challengeId : k \in 1..Len(challenges)} \cup {GenNonce(0)}

\* the parts of a response's proof, and an object with one field removed
ProofParts == {"pi_a", "pi_b", "pi_c", "publicSignals"}
Without(r, f) == [k \in DOMAIN r \ {f} |-> r[k]]

\* what a verifier may receive: the responses holders produced (whole,
\* or with one part of the proof removed), the same with
\* the challenge id rewritten, and incomplete ones
ReceivedResponses ==
    LET real == {responds[n].response : n \in {m \in 1..Len(responds) : responds[m].st = "returned"}}
    IN  real
        \cup {[r EXCEPT !.challengeId = id] : r \in real, id \in CheckedIds}
        \cup {[challengeId |-> id] : id \in CheckedIds}
        \cup {[challengeId |-> id, proof |-> [pi_b |-> "0x1111222233334444"]] : id \in CheckedIds}
        \cup {[r EXCEPT !.proof = Without(r.proof, f)] : r \in real, f \in ProofParts}
        \cup {NullResponse}

SdkInitialize == initialize

SdkGenerate ==
    \E inp \in SdkInputs :
        /\ Len(calls) < MaxSdkCalls
        /\ generateProofWithQR(inp)

BasicResolve == \E i \in 1..Len(calls), d \in MockDelays : BasicProverResolve(i, d)

SdkTick == \E t \in SdkTimes : Tick(t)

BatchGenerate ==
    \E rec \in {AdultDMY, MinorDMY}, requests \in BatchRequestLists : batchGenerate(rec, requests)

IssueChallenge ==
    \E c \in ChallengeInputs :
        /\ Len(challenges) < MaxChallenges
        /\ generateChallenge(c[1], c[2], c[3])

Respond ==
    \E qr \in ScannedQRs, rec \in {AdultDMY, MinorDMY} :
        /\ Len(responds) < MaxResponds
        /\ respondToChallenge(qr, rec)

Verify ==
    \E id \in CheckedIds, r \in ReceivedResponses :
        /\ Len(verifies) < MaxVerifies
        /\ VerifyCall(id, r)

ProtoTick == \E t \in ProtoTimes : Tick(t)

SdkNext   == SdkInitialize \/ SdkGenerate \/ BasicResolve \/ SdkTick
BatchNext == BatchGenerate \/ BasicResolve \/ SdkTick
ProtoNext == SdkInitialize \/ IssueChallenge \/ Respond \/ BasicResolve \/ Verify \/ ProtoTick

\* SolsticeSDK generating single proofs
SpecSdk == Init /\ [][SdkNext]_vars

\* one SolsticeSDK.batchGenerate call
SpecBatch == Init /\ [][BatchNext]_vars

\* verifier and holder exchanging challenges and responses
SpecProto == Init /\ [][ProtoNext]_vars

-----------------------------------------------------------------------------
(* Uniqueness proofs on both engines *)

\* params handed to generateUniquenessProof
UniqParams ==
    { [daoId |-> <<"d", "a", "o">>, epochId |-> "1x"],
      [daoId |-> <<"d", "a", "o", "1">>, epochId |-> "x"],
      [daoId |-> DaoId, epochId |-> "e1"],
      [daoId |-> DaoId, epochId |-> "e1", nonce |-> 7],
      [daoId |-> DaoId] }

UniqEnhInitialize == EnhInitialize(Kinds, Kinds)

UniqEnhGenerate ==
    \E p \in UniqParams :
        /\ Len(calls) < MaxUniqCalls
        /\ EnhGenerate(Input("uniqueness", AdultDMY, p))

UniqSdkGenerate ==
    \E p \in UniqParams :
        /\ Len(calls) < MaxUniqCalls
        /\ generateProofWithQR(Input("uniqueness", AdultDMY, p))

UniqNext ==
    \/ UniqEnhInitialize
    \/ UniqEnhGenerate
    \/ UniqSdkGenerate
    \/ EngineProverResolve
    \/ BasicResolve

\* uniqueness proofs asked of both engines for one holder
SpecUniq == Init /\ [][UniqNext]_vars

-----------------------------------------------------------------------------
(* Two challenges answered by holders *)

\* <<proofType, params, options>> of the challenges a verifier issues in pairs
PairChallengeInputs ==
    { <<"age", [threshold |-> 18], EmptyObj>>,
      <<"age", [threshold |-> 18], [nonce |-> 5]>>,
      <<"age", [threshold |-> 18], [nonce |-> 6]>>,
      <<"nationality", [allowedCountries |-> <<"IN">>], EmptyObj>>,
      <<"uniqueness", [daoId |-> DaoId, scope |-> "dao-1"], EmptyObj>> }

PairIssue ==
    \E c \in PairChallengeInputs :
        /\ Len(challenges) < MaxPairChallenges
        /\ generateChallenge(c[1], c[2], c[3])

PairRespond ==
    \E k \in 1..Len(challenges), rec \in {AdultDMY, MinorDMY} :
        /\ Len(responds) < MaxPairResponds
        /\ respondToChallenge(challenges[k].qrData, rec)

PairNext == PairIssue \/ PairRespond \/ BasicResolve

\* a verifier issuing two challenges that holders answer
SpecPair == Init /\ [][PairNext]_vars

-----------------------------------------------------------------------------
(* Cache maintenance *)

SweepTimes == {0, 1000, 604800000, 604801000}

SweepInitialize == EnhInitialize(Kinds, Kinds)

SweepGenerate ==
    \E inp \in CacheInputs :
        /\ Len(calls) < MaxSweepCalls
        /\ EnhGenerate(inp)

SweepClearCache == Len(clears) < MaxClears /\ clearCache

SweepTick == \E t \in SweepTimes : Tick(t)

SweepNext ==
    \/ SweepInitialize
    \/ SweepGenerate
    \/ EngineProverResolve
    \/ EngineSweep
    \/ SweepClearCache
    \/ SweepTick

\* proofs of several fingerprints cached at different instants, then swept
SpecSweep == Init /\ [][SweepNext]_vars

-----------------------------------------------------------------------------
(* Concurrent SolsticeSDK calls on a fresh SDK *)

LoadInputs ==
    { Input("age", AdultDMY, [threshold |-> 18]),
      Input("age", MinorDMY, [threshold |-> 18]),
      Input("nationality", AdultDMY, [allowedCountries |-> <<"IN">>]),
      Input("uniqueness", AdultDMY, [daoId |-> DaoId]) }

\* generate*ProofWithQR calls that still await their initialize()
Awaiting == {k \in 1..Len(inits) : inits[k].st = "loading" /\ inits[k].next.has}

LoadInitialize == Len(inits) < MaxLoadInits /\ initializeStart(NoNext)

LoadGenerate ==
    \E inp \in LoadInputs :
        /\ Len(calls) + Cardinality(Awaiting) < MaxLoadCalls
        /\ \/ generateProofInitialized(inp)
           \/ Len(inits) < MaxLoadInits /\ initializeStart(ThenGenerate(inp))

LoadInitialized == \E k \in 1..Len(inits) : initializeEnd(k)

LoadNext == LoadInitialize \/ LoadGenerate \/ LoadInitialized \/ BasicResolve

\* SolsticeSDK calls that may start before an earlier initialize() returned
SpecLoad == Init /\ [][LoadNext]_vars

-----------------------------------------------------------------------------
(* Loading the enhanced engine's artifacts *)

InitInitialize ==
    \E w, z \in SUBSET Kinds :
        /\ Len(inits) < MaxEngineInits
        /\ initializeEngine(w, z)

InitGenerate == \E inp \in CacheInputs : Len(calls) < MaxGenCalls /\ EnhGenerate(inp)

InitNext == InitInitialize \/ InitGenerate \/ EngineProverResolve

\* EnhancedProofGenerator.initialize with fetches that may fail
SpecInit == Init /\ [][InitNext]_vars

-----------------------------------------------------------------------------
(* Properties *)

Calls == 1..Len(calls)

SameFingerprint(i, j) ==
    /\ calls[i].eng = calls[j].eng
    /\ calls[i].kind = calls[j].kind
    /\ calls[i].rec.referenceId = calls[j].rec.referenceId
    /\ calls[i].params = calls[j].params

Succeeded(i) == calls[i].st = "done" /\ calls[i].res.ok

\* call j was made after call i had returned
MadeAfter(i, j) == calls[i].st = "done" /\ calls[j].seqStart > calls[i].seqEnd

\* no other call for the fingerprint stored a proof between i's return and j's start
NothingBetween(i, j) ==
    \A k \in Calls \ {i, j} :
        ~ /\ SameFingerprint(k, i)
          /\ calls[k].st = "done" /\ calls[k].invoked = 1
          /\ calls[k].seqEnd > calls[i].seqEnd
          /\ calls[k].seqEnd < calls[j].seqStart

OneAfterTheOther(i, j) ==
    /\ calls[i].eng = "enh" /\ SameFingerprint(i, j)
    /\ Succeeded(i) /\ MadeAfter(i, j) /\ NothingBetween(i, j)

ServedFromCache(i, j) ==
    /\ calls[i].invoked + calls[j].invoked <= 1
    /\ Succeeded(j)
    /\ calls[j].res.att = calls[i].res.att

C2_OneProverPerFingerprint ==
    \A i, j \in Calls :
        (i # j /\ calls[i].eng = "enh" /\ SameFingerprint(i, j)
           /\ calls[i].st = "proving" /\ calls[j].st = "proving")
        => FALSE

\* the error that reached the caller is a refusal of the parameters
Refused(i) ==
    /\ calls[i].st = "done" /\ ~calls[i].res.ok
    /\ \/ calls[i].res.err.name = "InvalidParametersError"
       \/ calls[i].res.err.cause = "InvalidParametersError"

\* C6: an enhanced age generation for a holder younger than the threshold
\* fails and never invokes the prover, whichever notation the date of birth
\* is written in.
C6_UnderageNeverProved ==
    \A i \in Calls :
        (/\ calls[i].eng = "enh" /\ calls[i].kind = "age"
         /\ validateAgeThreshold(calls[i].params.threshold)
         /\ HolderAge(calls[i].rec, calls[i].startedAt) < calls[i].params.threshold)
        => (calls[i].invoked = 0 /\ calls[i].st = "done" /\ ~calls[i].res.ok)

\* C8: an enhanced nationality (region) generation is refused exactly when
\* the holder's own region is not a member of the allowed regions.
C8_RefusedIffRegionNotAllowed ==
    \A i \in Calls :
        (calls[i].eng = "enh" /\ calls[i].kind = "nationality")
        => (Refused(i) <=> ~Includes(calls[i].params.allowedCountries, calls[i].rec.state))

\* C10: when one requested kind of a generateBatchProofs call has failed and
\* another has succeeded, the batch returns a result and that result holds the
\* attestation of the kind that succeeded.
C10_BatchKeepsSucceededKinds ==
    ebatch.st # "none" =>
        \A f, k \in DOMAIN ebatch.members :
            (/\ calls[ebatch.members[f]].st = "done" /\ ~calls[ebatch.members[f]].res.ok
             /\ Succeeded(ebatch.members[k]))
            => /\ generateAllProofsFromQR.st = "returned"
               /\ k \in DOMAIN generateAllProofsFromQR.proofs
               /\ generateAllProofsFromQR.proofs[k] = calls[ebatch.members[k]].res.att

Responds == 1..Len(responds)

\* the record meets what the verifier asked for when the response was begun
Satisfies(rec, proofType, asked, t) ==
    CASE proofType = "age" ->
           /\ Has(asked, "threshold") /\ validateAgeThreshold(asked.threshold)
           /\ HolderAge(rec, t) >= asked.threshold
      [] proofType = "nationality" ->
           /\ Has(asked, "allowedCountries")
           /\ validateNationalityParams(asked.allowedCountries)
           /\ Includes(asked.allowedCountries, "IN")
      [] proofType = "uniqueness" ->
           validateDaoId(asked)

\* respondToChallenge call n answers issued challenge k
Answers(n, k) ==
    /\ responds[n].parsed.ok
    /\ responds[n].parsed.challenge.challengeId = challenges[k].challenge.challengeId

\* C3: a respondToChallenge call on the encoded form of an issued challenge,
\* begun before the challenge expires by a holder whose record meets the
\* params the verifier asked for, does not fail, and the response it returns
\* is reported verified by verifyProofResponse under the challenge's id.
C3_RoundTripVerifies ==
    \A n \in Responds, k \in 1..Len(challenges) :
        (/\ Answers(n, k)
         /\ responds[n].startedAt < challenges[k].challenge.expiresAt
         /\ Satisfies(responds[n].rec, challenges[k].challenge.proofType,
                      challenges[k].asked, responds[n].startedAt))
        => \/ responds[n].st = "pending"
           \/ /\ responds[n].st = "returned"
              /\ verifyProofResponse(challenges[k].challenge.challengeId,
                                     responds[n].response).verified

\* the id the response carries is not the id it is checked against
IdDiffers(v) ==
    \/ ~Has(verifies[v].response, "challengeId")
    \/ verifies[v].response.challengeId # verifies[v].challengeId

\* C4: verifyProofResponse(B, r) reports verified = false whenever the
\* challenge id of r differs from B, whatever else r holds.
C4_MismatchRejected ==
    \A v \in 1..Len(verifies) : IdDiffers(v) => ~verifies[v].result.verified

\* a complete response of a holder, checked against another challenge id, was
\* rejected
C4_Witness ==
    \E v \in 1..Len(verifies) :
        /\ Has(verifies[v].response, "proof")
        /\ Has(verifies[v].response.proof, "pi_a")
        /\ Has(verifies[v].response.proof, "publicSignals")
        /\ verifies[v].response.challengeId # verifies[v].challengeId
        /\ ~verifies[v].result.verified
        /\ verifies[v].result.error = "Challenge ID mismatch"

\* respondToChallenge call n was begun after its challenge had expired
ExpiredRespond(n) ==
    /\ responds[n].parsed.ok
    /\ responds[n].startedAt > responds[n].parsed.challenge.expiresAt

\* C5 as stated: respondToChallenge on a challenge whose expiresAt is earlier
\* than the current time fails, loads no circuit and does not invoke the
\* prover.
C5_ExpiredLoadsNoCircuit ==
    \A n \in Responds :
        ExpiredRespond(n)
        => /\ responds[n].st = "thrown"
           /\ responds[n].loads = 0
           /\ responds[n].proved = 0

\* C5 amended: respondToChallenge on a challenge whose expiresAt is earlier
\* than the current time fails without starting a generation and without
\* invoking the prover; it loads no circuit when the SDK is already
\* initialized, and on an SDK not yet initialized it loads the three circuits
\* of the SDK's one-time initialize() and no other.
C5_ExpiredProvesNothing ==
    \A n \in Responds :
        ExpiredRespond(n)
        => /\ responds[n].st = "thrown"
           /\ responds[n].call = 0
           /\ responds[n].proved = 0
           /\ responds[n].loads = IF responds[n].wasInitialized THEN 0 ELSE Cardinality(Kinds)

\* an expired challenge was refused by an SDK that was already initialized
C5_Witness ==
    \E n \in Responds :
        /\ ExpiredRespond(n)
        /\ responds[n].wasInitialized
        /\ responds[n].st = "thrown"
        /\ responds[n].err.cause = "InvalidParametersError"
        /\ responds[n].loads = 0

\* C7: a basic age generation for a holder whose age is at least the
\* threshold T (an integer in 0..150) does not fail, and what it returns is an
\* attestation of kind age whose metadata.threshold is T.
C7_QualifiedAgeSucceeds ==
    \A i \in Calls :
        (/\ calls[i].eng = "basic" /\ calls[i].kind = "age"
         /\ Has(calls[i].params, "threshold")
         /\ validateAgeThreshold(calls[i].params.threshold)
         /\ HolderAge(calls[i].rec, calls[i].startedAt) >= calls[i].params.threshold)
        => \/ calls[i].st = "proving"
           \/ /\ SdkResult(calls[i]).ok
              /\ SdkResult(calls[i]).att.attributeType = "age"
              /\ SdkResult(calls[i]).att.metadata.threshold = calls[i].params.threshold

\* a holder exactly as old as the threshold received an age attestation
C7_Witness ==
    \E i \in Calls :
        /\ calls[i].eng = "basic" /\ calls[i].kind = "age"
        /\ calls[i].st = "done" /\ calls[i].res.ok
        /\ Has(calls[i].params, "threshold")
        /\ HolderAge(calls[i].rec, calls[i].startedAt) = calls[i].params.threshold
        /\ calls[i].res.att.metadata.threshold = calls[i].params.threshold

\* requests of the batch whose generation has failed / has succeeded
BatchFailed ==
    {k \in DOMAIN batch.members :
        calls[batch.members[k]].st = "done" /\ ~calls[batch.members[k]].res.ok}
BatchSucceeded ==
    {k \in DOMAIN batch.members : Succeeded(batch.members[k])}

\* C9: a batchGenerate call in which one request's generation failed and
\* another's succeeded does not throw; when it returns every request has been
\* run to its end, proofs holds exactly the attestations of the requests that
\* succeeded, and each failed request has its entry in errors and none in
\* proofs.
C9_BatchIsolatesFailures ==
    (batch.st # "none" /\ BatchFailed # {} /\ BatchSucceeded # {})
    => /\ batch.st \in {"running", "returned"}
       /\ batch.st = "returned" =>
            /\ DOMAIN batch.members = 1..Len(batch.reqs)
            /\ \A k \in DOMAIN batch.members : calls[batch.members[k]].st = "done"
            /\ Len(BatchResult.proofs) = Cardinality(BatchSucceeded)
            /\ \A k \in BatchSucceeded :
                  \E p \in 1..Len(BatchResult.proofs) :
                      BatchResult.proofs[p] = calls[batch.members[k]].res.att
            /\ \A p \in 1..Len(BatchResult.proofs) : BatchResult.proofs[p] # NoAtt
            /\ BatchResult.errorsDefined
            /\ Len(BatchResult.errors) = Cardinality(BatchFailed)
            /\ \A k \in BatchFailed :
                  \E e \in 1..Len(BatchResult.errors) :
                      BatchResult.errors[e] =
                          ErrorEntry(batch.reqs[k].type, calls[batch.members[k]].res.err)

\* a batch of two chunks returned with a failure in its first chunk and a
\* success in its second
C9_Witness ==
    /\ batch.st = "returned"
    /\ \E f \in BatchFailed, k \in BatchSucceeded : f <= ChunkSize /\ k > ChunkSize

\* requests of the batch whose generation call is waiting on the prover
BatchInFlight ==
    {k \in DOMAIN batch.members : calls[batch.members[k]].st = "proving"}

\* the group a request belongs to: 0 for the first ChunkSize requests, ...
GroupOf(k) == (k - 1) \div ChunkSize

\* C11: during a batchGenerate call at most 3 generation calls are in flight
\* at any instant, and a generation call of a later group is started only
\* after every call of the groups before it has settled.
C11_BoundedGroups ==
    batch.st # "none" =>
        /\ Cardinality(BatchInFlight) <= 3
        /\ \A j, k \in DOMAIN batch.members :
              GroupOf(j) < GroupOf(k)
              => /\ calls[batch.members[j]].st = "done"
                 /\ calls[batch.members[j]].seqEnd < calls[batch.members[k]].seqStart

\* a call of the second group is in flight after three calls of the first
\* group were in flight together and have all returned
C11_Witness ==
    /\ batch.st = "running"
    /\ \E k \in BatchInFlight : GroupOf(k) = 1
    /\ \A j \in 1..ChunkSize :
          /\ j \in DOMAIN batch.members
          /\ calls[batch.members[j]].invoked = 1
          /\ calls[batch.members[j]].st = "done"
          /\ \A i \in 1..ChunkSize :
                calls[batch.members[i]].seqStart < calls[batch.members[j]].seqEnd

\* the nullifier call i computed
NullifierOf(i) ==
    IF calls[i].eng = "basic"
    THEN BasicNullifier(calls[i].rec, calls[i].params)
    ELSE IF Succeeded(i)
    THEN calls[i].res.att.metadata.nullifier
    ELSE EnhNullifier(calls[i].rec, calls[i].params)

\* call i is a uniqueness generation that got as far as its nullifier
ComputedNullifier(i) ==
    /\ calls[i].kind = "uniqueness"
    /\ calls[i].invoked = 1 \/ Succeeded(i)

\* the scope and the epoch call i was made with
ScopeOf(i) ==
    IF Has(calls[i].params, "daoId") THEN <<"scope", calls[i].params.daoId>> ELSE <<"none">>
EpochOf(i) ==
    IF Has(calls[i].params, "epochId") THEN <<"epoch", calls[i].params.epochId>> ELSE <<"none">>

\* C12: two uniqueness generations of one engine for one record computed the
\* same nullifier exactly when they were made with the same scope and the
\* same epoch.
C12_NullifierDeterminedByScopeEpoch ==
    \A i, j \in Calls :
        (/\ ComputedNullifier(i) /\ ComputedNullifier(j)
         /\ calls[i].eng = calls[j].eng
         /\ calls[i].rec.referenceId = calls[j].rec.referenceId)
        => ((NullifierOf(i) = NullifierOf(j))
              <=> (ScopeOf(i) = ScopeOf(j) /\ EpochOf(i) = EpochOf(j)))

\* call i ended because its deadline fired
TimedOut(i) ==
    /\ calls[i].eng = "enh" /\ calls[i].st = "done" /\ ~calls[i].res.ok
    /\ calls[i].res.err.cause = "Error:timeout"

\* C13: no step in which a generation ends in a timeout, and no later step of
\* a generation that has ended in a timeout (its prover finishing after the
\* deadline), adds or changes a cache entry.
C13_TimeoutLeavesCache ==
    [][\A i \in 1..Len(calls) :
          (TimedOut(i)' /\ calls'[i] # calls[i]) => proofCache' = proofCache]_vars

\* the prover of a timed-out generation has finished after the deadline and
\* the cache holds nothing for that generation
C13_Witness ==
    \E i \in Calls :
        /\ TimedOut(i) /\ ~calls[i].running
        /\ generateCacheKey(calls[i].kind, calls[i].rec, Obj(calls[i]))
              \notin DOMAIN proofCache

\* the timeout the source configures for each kind, in ms
ConfiguredTimeout(kind) ==
    CASE kind = "age"         -> 30000
      [] kind = "nationality" -> 45000
      [] kind = "uniqueness"  -> 20000

Invoking == {i \in Calls : calls[i].invoked >= 1}

\* a call whose prover invocation threw
ProverFailed(i) ==
    /\ calls[i].st = "done" /\ calls[i].invoked >= 1 /\ ~calls[i].res.ok
    /\ calls[i].res.err.cause = "Error"

\* C15: every generation call has invoked the prover at most once, and the
\* prover has been invoked exactly once per call that invoked it, so no
\* invocation follows a call's timeout or prover failure.
C15_AtMostOneProverInvocation ==
    /\ \A i \in Calls : calls[i].invoked <= 1
    /\ proverCalls = Cardinality(Invoking)

\* a call has timed out, its late prover has finished, and the prover was
\* invoked once
C15_Witness ==
    \E i \in Calls :
        /\ TimedOut(i) /\ ~calls[i].running
        /\ calls[i].invoked = 1 /\ proverCalls = 1

\* a call has ended in a prover failure after one invocation
C15_WitnessFailure ==
    \E i \in Calls : ProverFailed(i) /\ calls[i].eng = "enh" /\ proverCalls = 1

\* a response whose proof structure is incomplete
Incomplete(r) ==
    \/ Has(r, "null")
    \/ ~Has(r, "proof")
    \/ \E f \in ProofParts : ~Has(r.proof, f)

\* C16: every verifyProofResponse call on a response whose proof lacks pi_a,
\* pi_b, pi_c or the public signals reports verified = false.
C16_IncompleteProofRejected ==
    \A n \in 1..Len(verifies) :
        Incomplete(verifies[n].response) => ~verifies[n].result.verified

\* call i was refused on its precondition: its params passed validation and
\* the generation threw the age or region refusal
PreconditionRefused(i) ==
    /\ Refused(i)
    /\ calls[i].kind \in {"age", "nationality"}
    /\ EnhValid(calls[i].kind, calls[i].params)

\* C17: an enhanced generation refused because the holder is below the age
\* threshold or outside the allowed regions ends with an
\* InvalidParametersError carrying the code INVALID_PARAMETERS.
C17_RefusalIsInvalidParameters ==
    \A i \in Calls :
        (calls[i].eng = "enh" /\ PreconditionRefused(i))
        => /\ calls[i].res.err.name = "InvalidParametersError"
           /\ calls[i].res.err.code = "INVALID_PARAMETERS"

\* C18: respondToChallenge on an expired challenge throws an error whose name
\* and code identify expiry (SessionExpiredError, SESSION_EXPIRED).
C18_ExpiredIsSessionExpired ==
    \A n \in Responds :
        ExpiredRespond(n)
        => /\ responds[n].st = "thrown"
           /\ responds[n].err.name = "SessionExpiredError"
           /\ responds[n].err.code = "SESSION_EXPIRED"

\* the lifetime in seconds the verifier asked for; no request, or a request
\* for 0 seconds, counts as none and stands for 300
RequestedSeconds(options) ==
    IF Has(options, "expirationSeconds") /\ options.expirationSeconds # 0
    THEN options.expirationSeconds
    ELSE 300

\* C19: every challenge generateChallenge returned expires strictly after its
\* creation, at createdAt plus the requested number of seconds (300 seconds
\* when the options request none).
C19_ExpiresAfterCreation ==
    \A k \in 1..Len(challenges) :
        LET ch == challenges[k].challenge
        IN  /\ ch.expiresAt > ch.createdAt
            /\ ch.expiresAt = ch.createdAt + RequestedSeconds(challenges[k].options) * 1000

\* the last input of a commitment
LastInput(commitment) == commitment[2][Len(commitment[2])]

\* the nonce behind call i: the one it handed to the prover, or, for a call
\* answered without the prover, the one the returned proof was built with
UsedNonce(i) ==
    IF calls[i].invoked = 1
    THEN calls[i].nonce
    ELSE LastInput(calls[i].res.att.metadata.identityCommitment)

\* call i is proving or has returned a proof, for params without a nonce
NonceLess(i) ==
    /\ ~Has(calls[i].params, "nonce")
    /\ calls[i].invoked = 1 \/ Succeeded(i)

AnswersToTwin(n, m) ==
    /\ n # m
    /\ responds[n].st = "returned" /\ responds[m].st = "returned"
    /\ responds[n].rec = responds[m].rec
    /\ responds[n].parsed.challenge.proofType = responds[m].parsed.challenge.proofType
    /\ responds[n].parsed.challenge.params = responds[m].parsed.challenge.params
    /\ responds[n].parsed.challenge.nonce # responds[m].parsed.challenge.nonce

\* the pi_a, pi_b, pi_c of a response
Pis(r) == <<r.proof.pi_a, r.proof.pi_b, r.proof.pi_c>>

KeyOf(c) == generateCacheKey(c.kind, c.rec, Obj(c))

\* an enhanced call that returned a proof without the prover
CacheServed(c) == c.eng = "enh" /\ c.st = "done" /\ c.res.ok /\ c.invoked = 0

\* C22: every cache entry expires after its creation, and a generation call
\* is answered from the cache only by the entry stored for its fingerprint and
\* only while the clock is before that entry's expiresAt.
C22_OnlyLiveEntriesReturned ==
    [][/\ \A k \in DOMAIN proofCache' :
             proofCache'[k].expiresAt > proofCache'[k].createdAt
       /\ (Len(calls') = Len(calls) + 1 /\ CacheServed(calls'[Len(calls')]))
          => LET c == calls'[Len(calls')]
             IN  /\ KeyOf(c) \in DOMAIN proofCache
                 /\ now < proofCache[KeyOf(c)].expiresAt
                 /\ c.res.att = proofCache[KeyOf(c)].proofData]_vars

\* one call was answered from the cache, and a later call, made when the
\* entry's expiresAt had been reached, went to the prover while the expired
\* entry was still stored
C22_Witness ==
    \E i, j, k \in Calls :
        /\ Succeeded(i) /\ calls[i].invoked = 1
        /\ CacheServed(calls[j]) /\ calls[j].res.att = calls[i].res.att
        /\ calls[k].invoked = 1
        /\ calls[k].startedAt = calls[i].endedAt + CIRCUIT_CACHE_TTL
        /\ calls[k].seqStart > calls[j].seqEnd

\* C23: whatever the cache holds and whatever the clock shows,
\* clearExpiredProofs leaves exactly the entries with expiresAt > now, each
\* as it was, and so removes exactly those with expiresAt <= now.
C23_SweepRemovesExactlyExpired ==
    LET left == Swept(proofCache, now)
    IN  /\ DOMAIN left = {k \in DOMAIN proofCache : proofCache[k].expiresAt > now}
        /\ DOMAIN proofCache \ DOMAIN left
              = {k \in DOMAIN proofCache : proofCache[k].expiresAt <= now}
        /\ \A k \in DOMAIN left : left[k] = proofCache[k]

\* two proofs were cached; the sweep has removed the one whose expiresAt has
\* been reached and has left the other, which expires later
C23_Witness ==
    \E i, j \in Calls :
        /\ Succeeded(i) /\ calls[i].invoked = 1
        /\ Succeeded(j) /\ calls[j].invoked = 1
        /\ calls[i].endedAt + CIRCUIT_CACHE_TTL <= now
        /\ KeyOf(calls[i]) \notin DOMAIN proofCache
        /\ KeyOf(calls[j]) \in DOMAIN proofCache
        /\ proofCache[KeyOf(calls[j])].expiresAt > now
        /\ proofCache = Swept(proofCache, now)

\* C24: each clearCache() call leaves the proof cache empty, and a generation
\* call made after it for a fingerprint cached before it is not answered with
\* the proof cached before.
C24_ClearCacheEmptiesCache ==
    \A n \in 1..Len(clears) :
        /\ clears[n].left = {}
        /\ \A i, j \in Calls :
              (/\ SameFingerprint(i, j) /\ calls[i].eng = "enh"
               /\ Succeeded(i) /\ calls[i].seqEnd <= clears[n].seq
               /\ calls[j].seqStart > clears[n].seq)
              => ~(CacheServed(calls[j]) /\ calls[j].res.att = calls[i].res.att)

\* the part of C24 about the calls that follow: after a clearCache() call a
\* fingerprint cached before it is not answered from the cache
C24_NextCallProvesAgain ==
    \A n \in 1..Len(clears), i, j \in Calls :
        (/\ SameFingerprint(i, j) /\ calls[i].eng = "enh"
         /\ Succeeded(i) /\ calls[i].seqEnd <= clears[n].seq
         /\ calls[j].seqStart > clears[n].seq)
        => ~CacheServed(calls[j])

\* call i ended without the prover because something the generation needs
\* had not been loaded: the Poseidon function or the circuit's artifacts
NotLoadedFailure(i) ==
    /\ calls[i].st = "done" /\ ~calls[i].res.ok /\ calls[i].invoked = 0
    /\ calls[i].res.err.cause \in {"TypeError", "Error"}

\* C25: an enhanced generation call whose params are valid and whose
\* precondition holds never fails for want of a loaded circuit: what is not
\* loaded yet is loaded during the call, whether or not initialize() ran.
C25_LazyLoadOnMiss ==
    \A i \in Calls : calls[i].eng = "enh" => ~NotLoadedFailure(i)

\* C26: no circuit is loaded twice: the loadCircuit executions so far are as
\* many as the kinds whose circuit is loaded.
C26_EachCircuitLoadedOnce == circuitLoads <= Cardinality(circuits)

\* C27: an EnhancedProofGenerator.initialize() call in which the fetch of some
\* circuit's artifacts failed throws a CircuitLoadError whose circuitType is
\* the kind of a circuit that failed to load.
C27_LoadErrorCarriesKind ==
    \A k \in 1..Len(inits) :
        (inits[k].eng = "enh" /\ inits[k].failed # {})
        => /\ inits[k].st = "thrown"
           /\ inits[k].err.name = "CircuitLoadError"
           /\ inits[k].err.code = "CIRCUIT_LOAD_FAILED"
           /\ inits[k].err.attr \in inits[k].failed

\* the attestation shows the nullifier to whoever receives it: in its
\* metadata, or among its public signals
CarriesNullifier(att) ==
    IF Has(att.metadata, "nullifier")
    THEN TRUE
    ELSE \E k \in 1..Len(att.publicSignals) : att.publicSignals[k].src = "nullifier_hash"

\* C28: every uniqueness attestation carries its nullifier, and two of them
\* made by one engine for one holder, scope and epoch carry the same one.
C28_UniquenessCarriesNullifier ==
    /\ \A i \in Calls :
          (Succeeded(i) /\ calls[i].kind = "uniqueness")
          => CarriesNullifier(calls[i].res.att)
    /\ \A i, j \in Calls :
          (/\ Succeeded(i) /\ Succeeded(j)
           /\ calls[i].kind = "uniqueness" /\ calls[j].kind = "uniqueness"
           /\ calls[i].eng = calls[j].eng
           /\ calls[i].rec.referenceId = calls[j].rec.referenceId
           /\ ScopeOf(i) = ScopeOf(j) /\ EpochOf(i) = EpochOf(j)
           /\ Has(calls[i].res.att.metadata, "nullifier")
           /\ Has(calls[j].res.att.metadata, "nullifier"))
          => calls[i].res.att.metadata.nullifier = calls[j].res.att.metadata.nullifier

\* the challenge-response part of C28 cannot arise: no uniqueness challenge
\* is ever answered
C28_NoUniquenessResponse ==
    \A n \in Responds :
        responds[n].parsed.ok /\ responds[n].parsed.challenge.proofType = "uniqueness"
        => responds[n].st = "thrown"

\* C29: a verifyProofResponse call made for a challenge after that
\* challenge's expiresAt has passed never reports verified.
C29_LateResponseNotVerified ==
    \A v \in 1..Len(verifies), k \in 1..Len(challenges) :
        (/\ challenges[k].challenge.challengeId = verifies[v].challengeId
         /\ verifies[v].at > challenges[k].challenge.expiresAt)
        => ~verifies[v].result.verified

\* C30: every failure a caller is told of carries a machine-readable code:
\* the error a generation call threw, and each entry of the errors list of a
\* batchGenerate result.
C30_FailuresCarryCode ==
    /\ \A i \in Calls :
          (calls[i].st = "done" /\ ~calls[i].res.ok)
          => /\ Has(SdkResult(calls[i]).err, "code")
             /\ SdkResult(calls[i]).err.code # ""
    /\ batch.st = "returned"
       => \A e \in 1..Len(BatchResult.errors) :
             /\ Has(BatchResult.errors[e], "code")
             /\ BatchResult.errors[e].code # ""


-----------------------------------------------------------------------------
(* C31: the attribute record leaves no trace in the cache *)

\* Reading back a string of byte digits: a byte of printable ASCII has two
\* digits when its first digit is 3..9 and three when it is 1.
RECURSIVE ReadBytes(_)
ReadBytes(digits) ==
    IF digits = <<>> THEN <<>>
    ELSE IF Head(digits) \in {1, 2} /\ Len(digits) >= 3
    THEN <<100 * digits[1] + 10 * digits[2] + digits[3]>>
             \o ReadBytes(SubSeq(digits, 4, Len(digits)))
    ELSE IF Len(digits) >= 2
    THEN <<10 * digits[1] + digits[2]>> \o ReadBytes(SubSeq(digits, 3, Len(digits)))
    ELSE <<digits[1]>>

\* the reference id that a reader of the cache key obtains from it
ReferenceIdIn(key) ==
    IF key[2][1] = "bytes" THEN ReadBytes(key[2][2]) ELSE <<>>

\* C31: once a generation call has returned, the reference id of its record
\* cannot be read back from any key of the proof cache.
C31_RecordNotRecoverable ==
    \A i \in 1..Len(calls) : \A k \in DOMAIN proofCache :
        calls[i].st = "done" =>
            ReferenceIdIn(k) # CharCodes(calls[i].rec.referenceId)


-----------------------------------------------------------------------------
(* Cache fingerprints: records and params objects that differ little *)

MaxKeyCalls == 2        \* generation calls per behaviour (fingerprints)

\* two holders whose reference ids have the same 32-bit rolling hash
HolderAa == Record("Aa", Date("DMY", 1995, 1, 1), "KA")
HolderBB == Record("BB", Date("DMY", 1995, 1, 1), "KA")

\* a request whose params object was written with its fields in the order w
InputWritten(kind, rec, params, w) ==
    [kind |-> kind, rec |-> rec, params |-> params, written |-> w]

KeyInputs ==
    { InputWritten("age", HolderAa, [threshold |-> 18, nonce |-> 5], <<"threshold", "nonce">>),
      InputWritten("age", HolderAa, [threshold |-> 18, nonce |-> 5], <<"nonce", "threshold">>),
      InputWritten("age", HolderBB, [threshold |-> 18, nonce |-> 5], <<"threshold", "nonce">>),
      InputWritten("age", HolderAa, [threshold |-> 21, nonce |-> 5], <<"threshold", "nonce">>),
      InputWritten("age", AdultDMY, [threshold |-> 18, nonce |-> 5], <<"threshold", "nonce">>),
      InputWritten("uniqueness", HolderAa, [daoId |-> DaoId, epochId |-> "e1"],
                   <<"daoId", "epochId">>),
      InputWritten("uniqueness", HolderAa, [daoId |-> DaoId, epochId |-> "e1"],
                   <<"epochId", "daoId">>),
      InputWritten("uniqueness", HolderAa, [daoId |-> DaoId], <<"daoId">>),
      InputWritten("nationality", HolderAa, [allowedCountries |-> <<"IN">>],
                   <<"allowedCountries">>),
      InputWritten("nationality", HolderAa, [allowedCountries |-> <<"IN", "US">>],
                   <<"allowedCountries">>) }

KeyInitialize == EnhInitialize(Kinds, Kinds)

KeyGenerate == \E inp \in KeyInputs : Len(calls) < MaxKeyCalls /\ EnhGenerate(inp)

KeyNext == KeyInitialize \/ KeyGenerate \/ EngineProverResolve

\* the caching engine in either runtime, over nearby fingerprints
SpecKey == InitAnyRuntime /\ [][KeyNext]_vars

\* C32: two calls of one kind for one referenceId whose params hold the same
\* fields with the same values have the same cache fingerprint, in whatever
\* order the fields were written.
C32_FingerprintIgnoresFieldOrder ==
    \A i, j \in Calls :
        (calls[i].eng = "enh" /\ SameFingerprint(i, j)) => KeyOf(calls[i]) = KeyOf(calls[j])


-----------------------------------------------------------------------------
(* Malformed params handed to the caching engine *)

MaxValidCalls == 2      \* generation calls per behaviour (validation)

ValidInputs ==
    { Input("age", r, [threshold |-> t]) :
        r \in {AdultDMY, MinorDMY}, t \in {-1, 0, 18, 150, 151} }
    \cup { Input("age", AdultDMY, [nonce |-> 5]) }
    \cup { Input("nationality", AdultDMY, [allowedCountries |-> a]) :
             a \in {<<"IN">>, <<"US">>, <<>>, <<"KA", "MH">>, <<"IN", "XX">>} }

ValidInitialize == EnhInitialize(Kinds, Kinds)

ValidGenerate == \E inp \in ValidInputs : Len(calls) < MaxValidCalls /\ EnhGenerate(inp)

ValidNext == ValidInitialize \/ ValidGenerate \/ EngineProverResolve

\* well-formed and malformed requests, before and after initialize()
SpecValid == Init /\ [][ValidNext]_vars

\* the call's kind-specific params are malformed: the age threshold is not an
\* integer in 0..150 (here: absent, negative or above 150), or the allowed
\* list is empty or names a country outside the supported set
Malformed(c) ==
    \/ /\ c.kind = "age"
       /\ Has(c.params, "threshold") => c.params.threshold \notin 0..150
    \/ /\ c.kind = "nationality"
       /\ \/ c.params.allowedCountries = <<>>
          \/ \E i \in 1..Len(c.params.allowedCountries) :
                c.params.allowedCountries[i] \notin SUPPORTED_COUNTRIES

RECURSIVE AttestationsOf(_)
AttestationsOf(ks) ==
    IF ks = <<>> THEN <<>>
    ELSE <<calls[batch.members[Head(ks)]].res.att>> \o AttestationsOf(Tail(ks))

\* C34: the proofs list of a returned batchGenerate call holds the
\* attestations of the requests that succeeded in the order of the requests,
\* in whatever order their generations completed.
C34_ProofsInRequestOrder ==
    batch.st = "returned" =>
        BatchResult.proofs = AttestationsOf(SortedSeq(BatchSucceeded))

\* a returned batch in which a request's generation completed after that of
\* a later request of the same group, both with a proof
C34_Witness ==
    /\ batch.st = "returned"
    /\ \E j, k \in BatchSucceeded :
          /\ j < k /\ GroupOf(j) = GroupOf(k)
          /\ calls[batch.members[j]].seqEnd > calls[batch.members[k]].seqEnd


\* C36: when a batchGenerate call returns, the attestations in proofs and
\* the entries in errors together are as many as the requests, one outcome
\* for each request.
C36_OneOutcomePerRequest ==
    batch.st = "returned" =>
        /\ Len(BatchResult.proofs) + Len(BatchResult.errors) = Len(batch.reqs)
        /\ Len(BatchResult.proofs) = Cardinality(BatchSucceeded)
        /\ Len(BatchResult.errors) = Cardinality(BatchFailed)
        /\ BatchSucceeded \cup BatchFailed = 1..Len(batch.reqs)

\* a batch of two groups returned with two failures and two proofs
C36_Witness ==
    /\ batch.st = "returned"
    /\ Len(batch.reqs) > ChunkSize
    /\ Len(BatchResult.errors) = 2
    /\ Len(BatchResult.proofs) = 2


-----------------------------------------------------------------------------
(* The initialized flag of the two SDKs *)

MaxFlagInits == 3       \* initialize() calls per behaviour (both SDKs)
MaxFlagCalls == 1       \* generate*ProofWithQR calls per behaviour (flag scenarios)

FlagInitialize ==
    /\ Len(inits) < MaxFlagInits
    /\ \/ initializeStart(NoNext)
       \/ enhInitializeStart
       \/ \E eng \in {"sdk", "esdk"} : initializeAgain(eng)

FlagInputs == {Input("age", AdultDMY, [threshold |-> 18])}

FlagGenerate ==
    \E inp \in FlagInputs :
        /\ Len(calls) + Cardinality(Awaiting) < MaxFlagCalls
        /\ \/ generateProofInitialized(inp)
           \/ Len(inits) < MaxFlagInits /\ initializeStart(ThenGenerate(inp))

FlagInitialized ==
    \E k \in 1..Len(inits) :
        \/ initializeEnd(k)
        \/ \E o \in LoadOutcomes : enhInitializeEnd(k, o[1], o[2])

FlagNext == FlagInitialize \/ FlagGenerate \/ FlagInitialized \/ BasicResolve

\* initialize() of SolsticeSDK and of EnhancedSolsticeSDK, with calls that
\* overlap and artifact fetches that may fail
SpecFlag == Init /\ [][FlagNext]_vars

\* execution k of initialize() ends with this step, as st
EndsAs(k, st) == inits[k].st = "loading" /\ inits'[k].st = st

\* C35: the flag of an SDK is set only by the step in which an initialize()
\* execution of that SDK returns from the generator's initialize(), and the
\* generator is then fully loaded; an execution that ends with an error
\* leaves the flag as it was; and an initialize() call made while the flag is
\* set returns at once and loads nothing.
C35_FlagFollowsGeneratorInit ==
    [][/\ (isInitialized' /\ ~isInitialized)
          => /\ \E k \in 1..Len(inits) : inits[k].eng = "sdk" /\ EndsAs(k, "done")
             /\ mockPoseidon' /\ circuits' = Kinds
       /\ (enhInitialized' /\ ~enhInitialized)
          => /\ \E k \in 1..Len(inits) : inits[k].eng = "esdk" /\ EndsAs(k, "done")
             /\ poseidon' /\ wasmCache' = Kinds /\ zkeyCache' = Kinds
       /\ (\E k \in 1..Len(inits) : EndsAs(k, "thrown"))
          => /\ isInitialized' = isInitialized
             /\ enhInitialized' = enhInitialized
       /\ \A eng \in {"sdk", "esdk"} :
            (/\ Len(inits') = Len(inits) + 1
             /\ inits'[Len(inits')].eng = eng
             /\ IF eng = "sdk" THEN isInitialized ELSE enhInitialized)
            => /\ inits'[Len(inits')].st = "returned"
               /\ UNCHANGED <<engineVars, sdkVars, enhInitialized>>]_vars

\* an initialize() of the enhanced SDK failed and left the flag unset, a
\* second one succeeded, and a third call returned at once
C35_Witness ==
    \E i, j, k \in 1..Len(inits) :
        /\ i < j /\ j < k
        /\ inits[i].eng = "esdk" /\ inits[i].st = "thrown"
        /\ inits[j].eng = "esdk" /\ inits[j].st = "done"
        /\ inits[k].eng = "esdk" /\ inits[k].st = "returned"
        /\ enhInitialized


\* C37: an enhanced call answered from the cache returns an attestation that
\* the prover produced in a call of the same kind, for the same referenceId
\* and with the same params; calls that differ in one of the three have
\* different cache keys.
C37_CacheEntryNeverShared ==
    /\ \A j \in Calls :
          CacheServed(calls[j])
          => \E i \in Calls :
                /\ calls[i].invoked = 1 /\ Succeeded(i)
                /\ calls[i].res.att = calls[j].res.att
                /\ SameFingerprint(i, j)
    /\ \A i, j \in Calls :
          (calls[i].eng = "enh" /\ calls[j].eng = "enh" /\ ~SameFingerprint(i, j))
          => KeyOf(calls[i]) # KeyOf(calls[j])


\* C38: the generation call that respondToChallenge makes for an issued
\* challenge receives every parameter the verifier passed to
\* generateChallenge, each with the value the verifier gave it.
C38_ParamsReachHolderUnchanged ==
    \A n \in Responds, k \in 1..Len(challenges) :
        (Answers(n, k) /\ responds[n].call # 0)
        => \A f \in DOMAIN challenges[k].asked :
              /\ Has(calls[responds[n].call].params, f)
              /\ calls[responds[n].call].params[f] = challenges[k].asked[f]


-----------------------------------------------------------------------------
(* retry(operation, maxAttempts, baseDelay), as SolanaClient.sendTransaction *)
(* uses it.  The k-th invocation of the operation returns the value k or    *)
(* throws the error k.                                                      *)

MaxRetryAttempts == 3   \* largest maxAttempts handed to retry
MaxRetrySeconds  == 6   \* instants observed: every second up to this one

RetryAttempts   == 0..MaxRetryAttempts
RetryBaseDelays == {1000, 2000}
RetryTimes      == {k * 1000 : k \in 0..MaxRetrySeconds}

delayMsFlat(baseDelay, attempt) == baseDelay

\* const delayMs = baseDelay * Math.pow(2, attempt - 1)
delayMs(baseDelay, attempt) == baseDelay * 2^(attempt - 1)

\* retry(operation, maxAttempts, baseDelay) up to its first await: the loop
\* is entered when 1 <= maxAttempts, else lastError is thrown as it is
retry(maxAttempts, baseDelay) ==
    /\ retryCall.st = "none"
    /\ retryCall' =
          [st          |-> IF 1 <= maxAttempts THEN "running" ELSE "thrown",
           maxAttempts |-> maxAttempts,
           baseDelay   |-> baseDelay,
           attempt     |-> 1,
           invoked     |-> IF 1 <= maxAttempts THEN <<now>> ELSE <<>>,
           settled     |-> <<>>,
           result      |-> 0,
           lastError   |-> 0,
           wakeAt      |-> now,
           endedAt     |-> now]
    /\ UNCHANGED <<workflow, enhInitialized, subtle, inits, clears, now, calls, seq,
                   proverCalls, nonceCtr, engineVars, sdkVars, batch, ebatch, protoVars>>

\* return await operation(): the operation resolved
retryOperationResolved ==
    /\ retryCall.st = "running"
    /\ retryCall' = [retryCall EXCEPT !.st = "returned",
                                      !.settled = Append(@, now),
                                      !.result = retryCall.attempt,
                                      !.endedAt = now]
    /\ UNCHANGED <<workflow, enhInitialized, subtle, inits, clears, now, calls, seq,
                   proverCalls, nonceCtr, engineVars, sdkVars, batch, ebatch, protoVars>>

\* catch (error): the operation rejected
retryOperationRejected ==
    /\ retryCall.st = "running"
    /\ retryCall' =
          IF retryCall.attempt = retryCall.maxAttempts
          THEN [retryCall EXCEPT !.st = "thrown",
                                 !.settled = Append(@, now),
                                 !.lastError = retryCall.attempt,
                                 !.endedAt = now]
          ELSE [retryCall EXCEPT !.st = "waiting",
                                 !.settled = Append(@, now),
                                 !.lastError = retryCall.attempt,
                                 !.wakeAt = now + delayMs(retryCall.baseDelay,
                                                          retryCall.attempt)]
    /\ UNCHANGED <<workflow, enhInitialized, subtle, inits, clears, now, calls, seq,
                   proverCalls, nonceCtr, engineVars, sdkVars, batch, ebatch, protoVars>>

\* await delay(delayMs) is over: the next pass of the loop invokes the operation
retryDelayElapsed ==
    /\ retryCall.st = "waiting"
    /\ now >= retryCall.wakeAt
    /\ retryCall' = [retryCall EXCEPT !.st = "running",
                                      !.attempt = @ + 1,
                                      !.invoked = Append(@, now)]
    /\ UNCHANGED <<workflow, enhInitialized, subtle, inits, clears, now, calls, seq,
                   proverCalls, nonceCtr, engineVars, sdkVars, batch, ebatch, protoVars>>

RetryCall == \E m \in RetryAttempts, b \in RetryBaseDelays : retry(m, b)

RetryTick == \E t \in RetryTimes : Tick(t)

RetryNext ==
    \/ RetryCall
    \/ retryOperationResolved
    \/ retryOperationRejected
    \/ retryDelayElapsed
    \/ RetryTick

\* one retry call whose operation may fail any number of times
SpecRetry == Init /\ [][RetryNext]_vars

\* C39: retry invokes the operation at most maxAttempts times; when it
\* returns, the value is that of the last invocation and every invocation
\* before it failed; the (k+1)-th invocation comes no sooner than
\* baseDelay * 2^(k-1) ms after the k-th one failed; and when it throws after
\* maxAttempts failures it throws the error of the last one at the instant
\* that one failed, with no delay started.
C39_RetryBackoff ==
    retryCall.st # "none" =>
        LET r == retryCall
            n == Len(r.invoked)
        IN  /\ n <= r.maxAttempts \/ n = 0
            /\ r.st = "returned" => (r.result = n /\ r.lastError = n - 1)
            /\ \A k \in 1..(n - 1) :
                  r.invoked[k + 1] - r.settled[k] >= r.baseDelay * 2^(k - 1)
            /\ r.st = "waiting" => r.attempt < r.maxAttempts
            /\ (r.st = "thrown" /\ r.maxAttempts >= 1)
               => /\ n = r.maxAttempts
                  /\ r.lastError = r.maxAttempts
                  /\ r.endedAt = r.settled[n]
                  /\ r.wakeAt <= r.settled[n]

\* three attempts failed, the second made 1000 ms after the first failure and
\* the third 2000 ms after the second, and the call threw
C39_Witness ==
    /\ retryCall.st = "thrown"
    /\ Len(retryCall.invoked) = 3
    /\ retryCall.invoked[2] - retryCall.settled[1] = 1000
    /\ retryCall.invoked[3] - retryCall.settled[2] = 2000


-----------------------------------------------------------------------------
(* EnhancedSolsticeSDK.completeVerificationWorkflow *)

MaxWorkflowInits == 2   \* initialize() calls per behaviour (workflow)

\* completeVerificationWorkflow(qrData, requirements) on an initialized SDK,
\* up to its await of generateAllProofsFromQR; rec is what qrData parses to
completeVerificationWorkflow(rec, requirements) ==
    /\ workflow.st = "none"
    /\ enhInitialized
    /\ EBatchBegin(rec, requirements)
    /\ workflow' = [st |-> "generating", requirements |-> requirements,
                    verifications |-> <<>>, session |-> FALSE, err |-> NoErr]
    /\ UNCHANGED <<retryCall, enhInitialized, subtle, inits, clears, now, engineVars,
                   batch, protoVars>>

\* Step 1 is over: generateAllProofsFromQR returned the proofs or threw
workflowProofsGenerated ==
    /\ workflow.st = "generating"
    /\ generateAllProofsFromQR.st \in {"returned", "thrown"}
    /\ workflow' =
          IF generateAllProofsFromQR.st = "thrown"
          THEN [workflow EXCEPT !.st = "thrown",
                                !.err = SolsticeError(generateAllProofsFromQR.err.name)]
          ELSE [workflow EXCEPT !.st = "verifying"]
    /\ UNCHANGED <<retryCall, enhInitialized, subtle, inits, clears, now, calls, seq,
                   proverCalls, nonceCtr, engineVars, sdkVars, batch, ebatch, protoVars>>

\* Object.entries(proofs): the proofs in the order in which they were stored
\* in the results object, which is the order in which they were generated
ProofEntries ==
    SortedBy(DOMAIN generateAllProofsFromQR.proofs,
             [k \in DOMAIN generateAllProofsFromQR.proofs |->
                 calls[ebatch.members[k]].seqEnd])

VerificationOutcomes == {"verified", "failed", "thrown"}

\* Step 2, one pass of the loop: verifications[type] = await
\* this.verifyIdentity(proof).  The chain reports the proof verified or not,
\* or the call throws (no wallet connected).
workflowVerifyIdentity(outcome) ==
    /\ workflow.st = "verifying"
    /\ Len(workflow.verifications) < Len(ProofEntries)
    /\ workflow' =
          IF outcome = "thrown"
          THEN [workflow EXCEPT !.st = "thrown", !.err = SolsticeError("SolsticeError")]
          ELSE [workflow EXCEPT !.verifications =
                   Append(@, [type |-> ProofEntries[Len(workflow.verifications) + 1],
                              verified |-> outcome = "verified"])]
    /\ UNCHANGED <<retryCall, enhInitialized, subtle, inits, clears, now, calls, seq,
                   proverCalls, nonceCtr, engineVars, sdkVars, batch, ebatch, protoVars>>

\* Object.values(verifications).every(v => v.verified)
allVerified(verifications) ==
    \A i \in 1..Len(verifications) : verifications[i].verified

\* Step 3 and the return: the session is created when allVerified holds;
\* created tells whether createSession returned or threw
workflowCreateSession(created) ==
    /\ workflow.st = "verifying"
    /\ Len(workflow.verifications) = Len(ProofEntries)
    /\ workflow' =
          IF ~allVerified(workflow.verifications)
          THEN [workflow EXCEPT !.st = "returned"]
          ELSE IF created
          THEN [workflow EXCEPT !.st = "returned", !.session = TRUE]
          ELSE [workflow EXCEPT !.st = "thrown", !.err = SolsticeError("NetworkError")]
    /\ UNCHANGED <<retryCall, enhInitialized, subtle, inits, clears, now, calls, seq,
                   proverCalls, nonceCtr, engineVars, sdkVars, batch, ebatch, protoVars>>

\* requirements objects handed to completeVerificationWorkflow
WorkflowRequirements ==
    { EmptyObj,
      [age |-> [threshold |-> 18]],
      [age |-> [threshold |-> 18], nationality |-> [allowedCountries |-> <<"IN">>]],
      [age |-> [threshold |-> 18], nationality |-> [allowedCountries |-> <<"US">>]],
      [nationality |-> [allowedCountries |-> <<"IN">>], uniqueness |-> [daoId |-> DaoId]] }

WorkflowInitialize ==
    /\ Len(inits) < MaxWorkflowInits
    /\ enhInitializeStart

WorkflowInitialized ==
    \E k \in 1..Len(inits), o \in LoadOutcomes : enhInitializeEnd(k, o[1], o[2])

WorkflowStart ==
    \E rec \in {AdultDMY, MinorDMY}, requirements \in WorkflowRequirements :
        completeVerificationWorkflow(rec, requirements)

WorkflowVerify == \E outcome \in VerificationOutcomes : workflowVerifyIdentity(outcome)

WorkflowSession == \E created \in BOOLEAN : workflowCreateSession(created)

WorkflowNext ==
    \/ WorkflowInitialize
    \/ WorkflowInitialized
    \/ WorkflowStart
    \/ EngineProverResolve
    \/ EngineProverReject
    \/ workflowProofsGenerated
    \/ WorkflowVerify
    \/ WorkflowSession

\* one completeVerificationWorkflow call
SpecWorkflow == Init /\ [][WorkflowNext]_vars

\* the kinds whose proof was reported verified on-chain
VerifiedKinds ==
    {KindOrder[workflow.verifications[i].type] : i \in
        {j \in 1..Len(workflow.verifications) : workflow.verifications[j].verified}}

\* C40: a completeVerificationWorkflow call that returns with a session was
\* asked for at least one proof, and every proof it was asked for was
\* generated and reported verified on-chain.
C40_SessionOnlyWhenAllVerified ==
    (workflow.st = "returned" /\ workflow.session)
    => /\ DOMAIN workflow.requirements # {}
       /\ DOMAIN workflow.requirements \subseteq VerifiedKinds

====
